---- MODULE Spec2Model ----
(***************************************************************************)
(* State-machine model of the bindlang binding engine                      *)
(* (src/bindlang/core): the gate checkers, the binding core, the           *)
(* cycle-checked registry and the multi-round cascade scheduler.           *)
(*                                                                         *)
(* Encoding of Python values:                                              *)
(*   None / Optional[x]   <<>> is None, <<x>> is a present value x         *)
(*   dict (insertion-ordered)   a sequence of <<key, value>> pairs with    *)
(*                              pairwise distinct keys                    *)
(*   datetime             an integer instant                               *)
(*   temporal string      the result of expr.split(":", 1): <<>> is the    *)
(*                        empty string, <<h>> a string without ':',        *)
(*                        <<h, r>> the string "h:r"; the reference r is    *)
(*                        <<"iso", t>> (ISO text of instant t),            *)
(*                        <<"digit", 0>> (starts with a digit, not ISO)    *)
(*                        or <<"key", k>> (a state key name k)             *)
(* Wall-clock fields (attempt_timestamp, bound_at, timestamp) and message  *)
(* texts are not modelled.                                                 *)
(***************************************************************************)
EXTENDS Integers, Sequences, FiniteSets, TLC

VARIABLES symbol_registry, dependency_graph, activated_symbols, ledger, trail,
          on_symbol_activated, streaming, lastCall

vars == <<symbol_registry, dependency_graph, activated_symbols, ledger, trail, on_symbol_activated, streaming, lastCall>>

(***************************************************************************)
(* Bounds                                                                  *)
(***************************************************************************)
\* register is offered while the ledger is shorter than MaxLedger, bind and the
\* sweep while the attempt log is shorter than MaxTrail; a sweep is called with
\* at most MaxRounds rounds; context instants are 1..MaxTime
MaxLedger == 3
MaxTrail == 2
MaxRounds == 2
MaxTime == 2

(***************************************************************************)
(* Python values                                                           *)
(***************************************************************************)
None == <<>>
Some(x) == <<x>>

Range(s) == {s[i] : i \in 1..Len(s)}

\* dict.get(key): Some(value) or None
DictGet(d, k) ==
    IF \E i \in 1..Len(d) : d[i][1] = k
    THEN Some(d[CHOOSE i \in 1..Len(d) : d[i][1] = k][2])
    ELSE None

\* d[key] = value: an existing key keeps its position, a new key is appended
DictSet(d, k, v) ==
    IF \E i \in 1..Len(d) : d[i][1] = k
    THEN [i \in 1..Len(d) |-> IF d[i][1] = k THEN <<k, v>> ELSE d[i]]
    ELSE Append(d, <<k, v>>)

\* bool(state.get(key)) for the values the model stores (booleans)
Truthy(o) == o # None /\ o[1] = TRUE

(***************************************************************************)
(* Temporal mini-language (models.py)                                      *)
(***************************************************************************)
\* a datetime comparison that also holds at the reference instant itself
DateTimeTemporal_evaluate_inclusive(expr, context) ==
    IF expr.operator = "after" THEN context.when >= expr.reference
    ELSE IF expr.operator = "before" THEN context.when <= expr.reference
    ELSE FALSE

\* DateTimeTemporal.evaluate
DateTimeTemporal_evaluate(expr, context) ==
    IF expr.operator = "after" THEN context.when > expr.reference
    ELSE IF expr.operator = "before" THEN context.when < expr.reference
    ELSE FALSE

\* StateTemporal.evaluate
StateTemporal_evaluate(expr, context) == Truthy(DictGet(context.state, expr.state_key))

\* TemporalExpression.parse: kind "error" stands for the raised ValueError
TemporalExpression_parse(expr) ==
    IF Len(expr) < 2
    THEN [kind |-> "error", operator |-> "", reference |-> 0, state_key |-> ""]
    ELSE IF expr[1] \notin {"after", "before"}
    THEN [kind |-> "error", operator |-> "", reference |-> 0, state_key |-> ""]
    ELSE IF expr[2][1] = "iso"
    THEN [kind |-> "DateTimeTemporal", operator |-> expr[1], reference |-> expr[2][2],
          state_key |-> ""]
    ELSE IF expr[2][1] = "digit"
    THEN [kind |-> "error", operator |-> "", reference |-> 0, state_key |-> ""]
    ELSE [kind |-> "StateTemporal", operator |-> "", reference |-> 0,
          state_key |-> expr[2][2]]

\* expr.evaluate(context), dispatched on the parsed class
Evaluable_evaluate(expr, context) ==
    IF expr.kind = "DateTimeTemporal" THEN DateTimeTemporal_evaluate(expr, context)
    ELSE StateTemporal_evaluate(expr, context)

\* Context.with_state_update
with_state_update(context, key, value) ==
    [context EXCEPT !.state = DictSet(context.state, key, value)]

(***************************************************************************)
(* Gate checkers (checkers.py).  check returns None or Some(FailureReason) *)
(***************************************************************************)
FailureReason(condition_type) == [condition_type |-> condition_type]

WhoChecker_matches(symbol, context) ==
    IF symbol.gate.who = None \/ symbol.gate.who[1] = {} THEN TRUE
    ELSE context.who # None /\ context.who[1] \in symbol.gate.who[1]

WhoChecker_check(symbol, context) ==
    IF WhoChecker_matches(symbol, context) THEN None
    ELSE Some(FailureReason("who"))

\* WhenChecker.matches that lets a guard it cannot parse pass
WhenChecker_matches_lenient(symbol, context) ==
    IF symbol.gate.when = None \/ symbol.gate.when[1] = <<>> THEN TRUE
    ELSE LET expr == TemporalExpression_parse(symbol.gate.when[1])
         IN  IF expr.kind = "error" THEN TRUE
             ELSE Evaluable_evaluate(expr, context)

WhenChecker_matches(symbol, context) ==
    IF symbol.gate.when = None \/ symbol.gate.when[1] = <<>> THEN TRUE
    ELSE LET expr == TemporalExpression_parse(symbol.gate.when[1])
         IN  IF expr.kind = "error" THEN FALSE
             ELSE Evaluable_evaluate(expr, context)

WhenChecker_check(symbol, context) ==
    IF symbol.gate.when = None \/ symbol.gate.when[1] = <<>> THEN None
    ELSE LET expr == TemporalExpression_parse(symbol.gate.when[1])
         IN  IF expr.kind = "error" THEN Some(FailureReason("when"))
             ELSE IF Evaluable_evaluate(expr, context) THEN None
             ELSE Some(FailureReason("when"))

WhereChecker_matches(symbol, context) ==
    IF symbol.gate.where = None \/ symbol.gate.where[1] = {} THEN TRUE
    ELSE context.where \in symbol.gate.where[1]

WhereChecker_check(symbol, context) ==
    IF WhereChecker_matches(symbol, context) THEN None
    ELSE Some(FailureReason("where"))

StateChecker_matches(symbol, context) ==
    IF symbol.gate.state = None \/ symbol.gate.state[1] = <<>> THEN TRUE
    ELSE \A i \in 1..Len(symbol.gate.state[1]) :
            DictGet(context.state, symbol.gate.state[1][i][1])
                = Some(symbol.gate.state[1][i][2])

StateChecker_check(symbol, context) ==
    IF symbol.gate.state = None \/ symbol.gate.state[1] = <<>> THEN None
    ELSE IF \E i \in 1..Len(symbol.gate.state[1]) :
               DictGet(context.state, symbol.gate.state[1][i][1])
                   # Some(symbol.gate.state[1][i][2])
    THEN Some(FailureReason("state"))
    ELSE None

DependencyChecker_matches(activated, symbol, context) ==
    \A i \in 1..Len(symbol.depends_on) : symbol.depends_on[i] \in activated

DependencyChecker_check(activated, symbol, context) ==
    IF symbol.depends_on = <<>> THEN None
    ELSE IF \E i \in 1..Len(symbol.depends_on) : symbol.depends_on[i] \notin activated
    THEN Some(FailureReason("dependency"))
    ELSE None

\* when.startswith("before:")
StartsWithBefore(when) == Len(when) = 2 /\ when[1] = "before"

ExpirationChecker_matches(symbol, context) ==
    IF symbol.gate.when = None \/ symbol.gate.when[1] = <<>>
       \/ ~StartsWithBefore(symbol.gate.when[1])
    THEN TRUE
    ELSE LET expr == TemporalExpression_parse(symbol.gate.when[1])
         IN  IF expr.kind = "error" THEN TRUE
             ELSE ~(expr.kind = "DateTimeTemporal" /\ ~Evaluable_evaluate(expr, context))

\* an expiration check that does not look at the class of the parsed expression
ExpirationChecker_check_any_class(symbol, context) ==
    IF symbol.gate.when = None \/ symbol.gate.when[1] = <<>>
       \/ ~StartsWithBefore(symbol.gate.when[1])
    THEN None
    ELSE LET expr == TemporalExpression_parse(symbol.gate.when[1])
         IN  IF expr.kind = "error" THEN None
             ELSE IF ~Evaluable_evaluate(expr, context)
             THEN Some(FailureReason("expired"))
             ELSE None

ExpirationChecker_check(symbol, context) ==
    IF symbol.gate.when = None \/ symbol.gate.when[1] = <<>>
       \/ ~StartsWithBefore(symbol.gate.when[1])
    THEN None
    ELSE LET expr == TemporalExpression_parse(symbol.gate.when[1])
         IN  IF expr.kind = "error" THEN None
             ELSE IF ~Evaluable_evaluate(expr, context) /\ expr.kind = "DateTimeTemporal"
             THEN Some(FailureReason("expired"))
             ELSE None

(***************************************************************************)
(* Lifecycle state machine (state.py)                                      *)
(***************************************************************************)
SymbolState == {"created", "dormant", "activated", "archived", "expired"}

\* SymbolStateMachine.TRANSITIONS as the set of legal <<from, to>> pairs
TRANSITIONS ==
    { <<"created", "dormant">>,
      <<"dormant", "activated">>, <<"dormant", "expired">>,
      <<"activated", "archived">>, <<"activated", "dormant">> }

\* a validation that accepts every change of state
SymbolStateMachine_validate_any_change(from_state, to_state) == from_state # to_state

\* SymbolStateMachine.validate
SymbolStateMachine_validate(from_state, to_state) == <<from_state, to_state>> \in TRANSITIONS

StateTransition(symbol_id, from_state, to_state, reason) ==
    [symbol_id |-> symbol_id, from_state |-> from_state, to_state |-> to_state,
     reason |-> reason]

(***************************************************************************)
(* The engine (engine.py).  An engine value eng is the record of the       *)
(* engine's mutable fields; every operation returns the new engine value   *)
(* together with its result.                                               *)
(***************************************************************************)
Engine(reg, graph, act, led, tr, hook, stream) ==
    [symbol_registry |-> reg, dependency_graph |-> graph, activated_symbols |-> act,
     ledger |-> led, trail |-> tr, on_symbol_activated |-> hook, streaming |-> stream]

\* StreamingManager.__init__ together with the sink object it refers to.
\* audit_sink is None or Some(kind): a "recording" sink, whose write stores
\* the attempt and returns, or a "failing" sink, whose write raises.  sink
\* is the manager's reference to the sink (None once closed); written is
\* what the sink object received, closed whether its close() was called.
StreamingManager(audit_sink) == [sink |-> audit_sink, written |-> <<>>, closed |-> FALSE]

\* a _log that also refuses a transition of a unit whose last recorded
\* transition ended in expired
log_refuses_expired(eng, symbol_id, from_state, to_state, reason) ==
    LET own == SelectSeq(eng.ledger, LAMBDA t : t.symbol_id = symbol_id)
    IN  IF SymbolStateMachine_validate(from_state, to_state)
           /\ ~(own # <<>> /\ own[Len(own)].to_state = "expired")
        THEN [eng |-> [eng EXCEPT !.ledger =
                          Append(@, StateTransition(symbol_id, from_state, to_state, reason))],
              raised |-> None]
        ELSE [eng |-> eng, raised |-> Some("ValueError")]

\* BindingEngine._log: the transition is validated when it is constructed;
\* raised = "ValueError" when the pair is not legal, and nothing is appended
log(eng, symbol_id, from_state, to_state, reason) ==
    IF SymbolStateMachine_validate(from_state, to_state)
    THEN [eng |-> [eng EXCEPT !.ledger =
                      Append(@, StateTransition(symbol_id, from_state, to_state, reason))],
          raised |-> None]
    ELSE [eng |-> eng, raised |-> Some("ValueError")]

BindingAttempt(symbol_id, context, success, bound_symbol_id, failure_reasons) ==
    [symbol_id |-> symbol_id, context_snapshot |-> context, success |-> success,
     bound_symbol_id |-> bound_symbol_id, failure_reasons |-> failure_reasons,
     state_changes_applied |-> None]

BoundSymbol(symbol, context) ==
    [symbol_id |-> symbol.id, effect |-> symbol.payload, context_snapshot |-> context,
     state_changes_applied |-> None]

\* record_attempt that drops an attempt repeating the previous entry
record_attempt_dedup(eng, attempt) ==
    IF eng.trail # <<>> /\ eng.trail[Len(eng.trail)] = attempt THEN eng
    ELSE [eng EXCEPT !.trail = Append(@, attempt)]

\* AuditManager.record_attempt
record_attempt(eng, attempt) == [eng EXCEPT !.trail = Append(@, attempt)]

\* a StreamingManager.record_attempt that streams the attempt before it is
\* stored in memory, so that a raising sink leaves the log without it
StreamingManager_record_attempt_sink_first(eng, attempt) ==
    IF eng.streaming.sink = Some("failing")
    THEN [eng |-> eng, raised |-> Some("SinkError")]
    ELSE IF eng.streaming.sink = None
    THEN [eng |-> record_attempt(eng, attempt), raised |-> None]
    ELSE [eng |-> [record_attempt(eng, attempt) EXCEPT
                      !.streaming.written = Append(@, attempt)],
          raised |-> None]

\* StreamingManager.record_attempt: the attempt is stored in memory first,
\* then handed to the sink when one is attached; raised is the error of
\* sink.write, which is not caught
StreamingManager_record_attempt(eng, attempt) ==
    LET e1 == record_attempt(eng, attempt)
    IN  IF e1.streaming.sink = None THEN [eng |-> e1, raised |-> None]
        ELSE IF e1.streaming.sink = Some("failing")
        THEN [eng |-> e1, raised |-> Some("SinkError")]
        ELSE [eng |-> [e1 EXCEPT !.streaming.written = Append(@, attempt)],
              raised |-> None]

\* StreamingManager.close, called by BindingEngine.__exit__
StreamingManager_close(eng) ==
    IF eng.streaming.sink # None
    THEN [eng EXCEPT !.streaming.closed = TRUE, !.streaming.sink = None]
    ELSE eng

\* the sequence of the present values of a sequence of optionals, in order
RECURSIVE Present(_)
Present(opts) ==
    IF opts = <<>> THEN <<>>
    ELSE (IF Head(opts) = None THEN <<>> ELSE <<Head(opts)[1]>>) \o Present(Tail(opts))

\* the checks stopped at the first failing checker
failure_reasons_short_circuit(activated, symbol, context) ==
    LET all == Present(<< DependencyChecker_check(activated, symbol, context),
                          ExpirationChecker_check(symbol, context),
                          WhoChecker_check(symbol, context),
                          WhereChecker_check(symbol, context),
                          StateChecker_check(symbol, context),
                          WhenChecker_check(symbol, context) >>)
    IN  IF all = <<>> THEN <<>> ELSE <<all[1]>>

\* BindingEngine.bind, lines 104-117: all six checks, every diagnostic collected
failure_reasons(activated, symbol, context) ==
    Present(<< DependencyChecker_check(activated, symbol, context),
               ExpirationChecker_check(symbol, context),
               WhoChecker_check(symbol, context),
               WhereChecker_check(symbol, context),
               StateChecker_check(symbol, context),
               WhenChecker_check(symbol, context) >>)

\* One invocation of the activation callback: its arguments and the engine
\* state it can observe when it runs.
HookCall(eng, symbol, context, bound) ==
    [symbol |-> symbol, context |-> context, bound |-> bound,
     activated_symbols |-> eng.activated_symbols, ledger |-> eng.ledger,
     trail |-> eng.trail]

\* bind that fires the activation callback before the attempt is recorded
bind_hook_before_record(eng, symbol, context) ==
    LET reasons == failure_reasons(eng.activated_symbols, symbol, context)
    IN  IF reasons # <<>>
        THEN LET s == StreamingManager_record_attempt(eng,
                          BindingAttempt(symbol.id, context, FALSE, None, reasons))
                 l == IF \E i \in 1..Len(reasons) : reasons[i].condition_type = "expired"
                      THEN log(s.eng, symbol.id, "dormant", "expired", "Deadline passed")
                      ELSE [eng |-> s.eng, raised |-> None]
             IN  IF s.raised # None
                 THEN [eng |-> s.eng, ret |-> None, raised |-> s.raised, hook_calls |-> <<>>]
                 ELSE [eng |-> l.eng, ret |-> None, raised |-> l.raised, hook_calls |-> <<>>]
        ELSE LET bound == BoundSymbol(symbol, context)
                 e1 == [eng EXCEPT !.activated_symbols = @ \cup {symbol.id}]
                 l == log(e1, symbol.id, "dormant", "activated", "Binding success")
                 s == StreamingManager_record_attempt(l.eng,
                          BindingAttempt(symbol.id, context, TRUE, Some(symbol.id), <<>>))
                 e3 == s.eng
             IN  IF l.raised # None
                 THEN [eng |-> l.eng, ret |-> None, raised |-> l.raised, hook_calls |-> <<>>]
                 ELSE IF s.raised # None
                 THEN [eng |-> s.eng, ret |-> None, raised |-> s.raised, hook_calls |-> <<>>]
                 ELSE [eng |-> e3, ret |-> Some(bound), raised |-> None,
                       hook_calls |-> IF eng.on_symbol_activated
                                      THEN <<HookCall(l.eng, symbol, context, bound)>>
                                      ELSE <<>>]

\* BindingEngine.bind: [eng, ret, raised, hook_calls] with ret = None or
\* Some(BoundSymbol); raised is the error of _log or of the sink's write,
\* raised before the remaining statements run; hook_calls lists the
\* invocations of on_symbol_activated.  The operations built on bind
\* (bind_all, the sweep, the evolution loop, try_bind) are modelled for
\* engines whose sink, if any, is a recording one.
bind(eng, symbol, context) ==
    LET reasons == failure_reasons(eng.activated_symbols, symbol, context)
    IN  IF reasons # <<>>
        THEN LET s == StreamingManager_record_attempt(eng,
                          BindingAttempt(symbol.id, context, FALSE, None, reasons))
                 l == IF \E i \in 1..Len(reasons) : reasons[i].condition_type = "expired"
                      THEN log(s.eng, symbol.id, "dormant", "expired", "Deadline passed")
                      ELSE [eng |-> s.eng, raised |-> None]
             IN  IF s.raised # None
                 THEN [eng |-> s.eng, ret |-> None, raised |-> s.raised, hook_calls |-> <<>>]
                 ELSE [eng |-> l.eng, ret |-> None, raised |-> l.raised, hook_calls |-> <<>>]
        ELSE LET bound == BoundSymbol(symbol, context)
                 e1 == [eng EXCEPT !.activated_symbols = @ \cup {symbol.id}]
                 l == log(e1, symbol.id, "dormant", "activated", "Binding success")
                 s == StreamingManager_record_attempt(l.eng,
                          BindingAttempt(symbol.id, context, TRUE, Some(symbol.id), <<>>))
                 e3 == s.eng
             IN  IF l.raised # None
                 THEN [eng |-> l.eng, ret |-> None, raised |-> l.raised, hook_calls |-> <<>>]
                 ELSE IF s.raised # None
                 THEN [eng |-> s.eng, ret |-> None, raised |-> s.raised, hook_calls |-> <<>>]
                 ELSE [eng |-> e3, ret |-> Some(bound), raised |-> None,
                       hook_calls |-> IF eng.on_symbol_activated
                                      THEN <<HookCall(e3, symbol, context, bound)>>
                                      ELSE <<>>]

\* AuditManager.attempts(symbol_id)
AuditManager_attempts(eng, symbol_id) ==
    SelectSeq(eng.trail, LAMBDA a : a.symbol_id = symbol_id)

\* an explain that reports success when any attempt of the unit succeeded
AuditManager_explain_any_success(eng, symbol_id) ==
    LET all_attempts == AuditManager_attempts(eng, symbol_id)
        latest == all_attempts[Len(all_attempts)]
    IN  IF all_attempts = <<>> THEN [outcome |-> "never attempted", reasons |-> <<>>]
        ELSE IF \E i \in 1..Len(all_attempts) : all_attempts[i].success
        THEN [outcome |-> "successfully activated", reasons |-> <<>>]
        ELSE IF latest.failure_reasons = <<>>
        THEN [outcome |-> "failed to activate (no specific reason recorded)",
              reasons |-> <<>>]
        ELSE [outcome |-> "failed to activate", reasons |-> latest.failure_reasons]

\* AuditManager.explain: the sentence it returns, as its kind and the
\* failure reasons it lists one per line
AuditManager_explain(eng, symbol_id) ==
    LET all_attempts == AuditManager_attempts(eng, symbol_id)
        latest == all_attempts[Len(all_attempts)]
    IN  IF all_attempts = <<>> THEN [outcome |-> "never attempted", reasons |-> <<>>]
        ELSE IF latest.success
        THEN [outcome |-> "successfully activated", reasons |-> <<>>]
        ELSE IF latest.failure_reasons = <<>>
        THEN [outcome |-> "failed to activate (no specific reason recorded)",
              reasons |-> <<>>]
        ELSE [outcome |-> "failed to activate", reasons |-> latest.failure_reasons]

\* lines 166-170 of BindingEngine.bind_all: the loop over symbol_ids from
\* the i-th id on; a missing id raises KeyError out of the loop
RECURSIVE bind_all_from(_, _, _, _, _)
bind_all_from(eng, symbol_ids, i, context, results) ==
    IF i > Len(symbol_ids) THEN [eng |-> eng, results |-> results, raised |-> None]
    ELSE IF DictGet(eng.symbol_registry, symbol_ids[i]) = None
    THEN [eng |-> eng, results |-> <<>>, raised |-> Some("KeyError")]
    ELSE CHOOSE out \in
         { bind_all_from(b.eng, symbol_ids, i + 1, context,
                         IF b.ret # None THEN Append(results, b.ret[1]) ELSE results)
           : b \in {bind(eng, DictGet(eng.symbol_registry, symbol_ids[i])[1], context)} } : TRUE

\* a bind_all that looks every id up before it binds anything
bind_all_lookup_first(eng, symbol_ids, context) ==
    IF \E i \in 1..Len(symbol_ids) : DictGet(eng.symbol_registry, symbol_ids[i]) = None
    THEN [eng |-> eng, results |-> <<>>, raised |-> Some("KeyError")]
    ELSE bind_all_from(eng, symbol_ids, 1, context, <<>>)

\* BindingEngine.bind_all: [eng, results, raised]
bind_all(eng, symbol_ids, context) ==
    bind_all_from(eng, symbol_ids, 1, context, <<>>)

(***************************************************************************)
(* Registration and the cycle check                                        *)
(***************************************************************************)
\* self.dependency_graph.get(node, [])
Neighbours(graph, node) ==
    IF DictGet(graph, node) = None THEN <<>> ELSE DictGet(graph, node)[1]

\* path.index(x): the first position of x
IndexOf(path, x) == CHOOSE i \in 1..Len(path) : path[i] = x /\ \A j \in 1..(i - 1) : path[j] # x

\* The nested dfs(node, path) of _validate_acyclic.  st carries the closure's
\* visited and rec_stack sets and the path list; the result adds the returned
\* cycle (None, or Some(path of ids)).  dfs_neighbours is its for-loop from
\* the i-th neighbour on.
RECURSIVE dfs(_, _, _), dfs_neighbours(_, _, _, _)
dfs(graph, node, st) ==
    LET entered == [visited |-> st.visited \cup {node},
                    rec_stack |-> st.rec_stack \cup {node},
                    path |-> Append(st.path, node)]
        r == dfs_neighbours(graph, Neighbours(graph, node), 1, entered)
    IN  IF r.cycle # None THEN r
        ELSE [cycle |-> None, visited |-> r.visited,
              rec_stack |-> r.rec_stack \ {node},
              path |-> SubSeq(r.path, 1, Len(r.path) - 1)]

dfs_neighbours(graph, nbrs, i, st) ==
    IF i > Len(nbrs)
    THEN [cycle |-> None, visited |-> st.visited, rec_stack |-> st.rec_stack,
          path |-> st.path]
    ELSE IF nbrs[i] \notin st.visited
    THEN LET r == dfs(graph, nbrs[i], st)
         IN  IF r.cycle # None THEN r
             ELSE dfs_neighbours(graph, nbrs, i + 1,
                      [visited |-> r.visited, rec_stack |-> r.rec_stack, path |-> r.path])
    ELSE IF nbrs[i] \in st.rec_stack
    THEN [cycle |-> Some(SubSeq(st.path, IndexOf(st.path, nbrs[i]), Len(st.path))
                            \o <<nbrs[i]>>),
          visited |-> st.visited, rec_stack |-> st.rec_stack, path |-> st.path]
    ELSE dfs_neighbours(graph, nbrs, i + 1, st)

\* the "for node in self.dependency_graph" loop from the i-th key on
RECURSIVE validate_from(_, _, _)
validate_from(graph, i, visited) ==
    IF i > Len(graph) THEN None
    ELSE IF graph[i][1] \in visited THEN validate_from(graph, i + 1, visited)
    ELSE LET r == dfs(graph, graph[i][1],
                      [visited |-> visited, rec_stack |-> {}, path |-> <<>>])
         IN  IF r.cycle # None THEN r.cycle
             ELSE validate_from(graph, i + 1, r.visited)

\* a cycle check that searches from the first key of the graph only
validate_first_key_only(graph) ==
    IF graph = <<>> THEN None
    ELSE dfs(graph, graph[1][1], [visited |-> {}, rec_stack |-> {}, path |-> <<>>]).cycle

\* BindingEngine._validate_acyclic: None, or Some(cycle) when it raises
validate_acyclic(graph) == validate_from(graph, 1, {})

\* register that forgets the satisfied mark of a re-registered id
register_resets(eng, symbol) ==
    LET e1 == [eng EXCEPT !.symbol_registry = DictSet(@, symbol.id, symbol),
                          !.activated_symbols = @ \ {symbol.id}]
        e2 == [e1 EXCEPT !.dependency_graph = DictSet(@, symbol.id, symbol.depends_on)]
        cycle == validate_acyclic(e2.dependency_graph)
    IN  IF cycle # None
        THEN [eng |-> e2, raised |-> Some("CircularDependencyError"), cycle |-> cycle]
        ELSE [eng |-> log(e2, symbol.id, "created", "dormant", "Registered").eng,
              raised |-> None, cycle |-> None]

\* a register that drops the stored entry of the id and inserts the unit at
\* the end of the registry
register_reinserts(eng, symbol) ==
    LET kept == SelectSeq(eng.symbol_registry, LAMBDA kv : kv[1] # symbol.id)
        e1 == [eng EXCEPT !.symbol_registry = Append(kept, <<symbol.id, symbol>>)]
        e2 == [e1 EXCEPT !.dependency_graph = DictSet(@, symbol.id, symbol.depends_on)]
        cycle == validate_acyclic(e2.dependency_graph)
    IN  IF cycle # None
        THEN [eng |-> e2, raised |-> Some("CircularDependencyError"), cycle |-> cycle]
        ELSE [eng |-> log(e2, symbol.id, "created", "dormant", "Registered").eng,
              raised |-> None, cycle |-> None]

\* BindingEngine.register: [eng, raised, cycle]
register(eng, symbol) ==
    LET e1 == [eng EXCEPT !.symbol_registry = DictSet(@, symbol.id, symbol)]
        e2 == [e1 EXCEPT !.dependency_graph = DictSet(@, symbol.id, symbol.depends_on)]
        cycle == validate_acyclic(e2.dependency_graph)
    IN  IF cycle # None
        THEN [eng |-> e2, raised |-> Some("CircularDependencyError"), cycle |-> cycle]
        ELSE [eng |-> log(e2, symbol.id, "created", "dormant", "Registered").eng,
              raised |-> None, cycle |-> None]

(***************************************************************************)
(* The cascade scheduler: BindingEngine.bind_all_registered.  An           *)
(* assignment x = v followed by statements S(x) is written                 *)
(* CHOOSE out \in {S(x) : x \in {v}} : TRUE, the one element of a singleton, *)
(* which evaluates v once, before the statements that use it.              *)
(***************************************************************************)
\* the pre-checks without the dependency pre-check
prefilter_no_dependency(activated, symbol, context) ==
    /\ WhenChecker_matches(symbol, context)
    /\ StateChecker_matches(symbol, context)
    /\ WhoChecker_matches(symbol, context)
    /\ WhereChecker_matches(symbol, context)

\* the pre-checks without the location pre-check
prefilter_no_where(activated, symbol, context) ==
    /\ DependencyChecker_matches(activated, symbol, context)
    /\ WhenChecker_matches(symbol, context)
    /\ StateChecker_matches(symbol, context)
    /\ WhoChecker_matches(symbol, context)

\* lines 218-235: the pre-checks that decide whether a symbol is attempted
prefilter(activated, symbol, context) ==
    /\ DependencyChecker_matches(activated, symbol, context)
    /\ WhenChecker_matches(symbol, context)
    /\ StateChecker_matches(symbol, context)
    /\ WhoChecker_matches(symbol, context)
    /\ WhereChecker_matches(symbol, context)

\* One evaluation of a registry entry inside a round, as the scheduler saw
\* it: the context and satisfied set it was evaluated against, the window
\* (trail_from, trail_to] of attempt-log positions it appended and the
\* entries it appended there, as they were when bind returned.
Evaluation(symbol, context, eng_before, eng_after, skipped, called) ==
    [symbol |-> symbol, context |-> context,
     activated |-> eng_before.activated_symbols,
     skipped |-> skipped, called |-> called,
     trail_from |-> Len(eng_before.trail), trail_to |-> Len(eng_after.trail),
     recorded |-> SubSeq(eng_after.trail, Len(eng_before.trail) + 1, Len(eng_after.trail))]

\* lines 213-248: the loop over symbol_registry.items() from the i-th entry on
RECURSIVE round_items(_, _, _, _, _, _)
round_items(eng, i, context, consumed_ids, bound_this_iteration, evals) ==
    IF i > Len(eng.symbol_registry)
    THEN [eng |-> eng, consumed_ids |-> consumed_ids,
          bound_this_iteration |-> bound_this_iteration, evals |-> evals]
    ELSE LET sym_id == eng.symbol_registry[i][1]
             symbol == eng.symbol_registry[i][2]
         IN  IF sym_id \in consumed_ids
             THEN round_items(eng, i + 1, context, consumed_ids, bound_this_iteration,
                      Append(evals, Evaluation(symbol, context, eng, eng, TRUE, FALSE)))
             ELSE IF ~prefilter(eng.activated_symbols, symbol, context)
             THEN round_items(eng, i + 1, context, consumed_ids, bound_this_iteration,
                      Append(evals, Evaluation(symbol, context, eng, eng, FALSE, FALSE)))
             ELSE CHOOSE out \in
                  { LET ev == Evaluation(symbol, context, eng, b.eng, FALSE, TRUE)
                    IN  IF b.ret # None
                        THEN round_items(b.eng, i + 1, context,
                                 IF symbol.consumption = "one_shot"
                                 THEN consumed_ids \cup {sym_id} ELSE consumed_ids,
                                 Append(bound_this_iteration, b.ret[1]), Append(evals, ev))
                        ELSE round_items(b.eng, i + 1, context, consumed_ids,
                                 bound_this_iteration, Append(evals, ev))
                    : b \in {bind(eng, symbol, context)} } : TRUE

\* lines 262-269: one bound symbol's state_mutation items from the k-th on
RECURSIVE mutation_items(_, _, _, _)
mutation_items(context, items, k, state_changes) ==
    IF k > Len(items) THEN [context |-> context, state_changes |-> state_changes]
    ELSE mutation_items(with_state_update(context, items[k][1], items[k][2]), items, k + 1,
             Append(state_changes,
                    [key |-> items[k][1], old |-> DictGet(context.state, items[k][1]),
                     new |-> items[k][2]]))

\* an audit update that writes to the oldest successful attempt of the id
update_audit_oldest_success(eng, symbol_id, state_changes) ==
    LET hits == {i \in 1..Len(eng.trail) :
                    eng.trail[i].symbol_id = symbol_id /\ eng.trail[i].success}
    IN  IF hits = {} THEN eng
        ELSE LET i == CHOOSE h \in hits : \A g \in hits : h <= g
             IN  [eng EXCEPT !.trail[i].state_changes_applied = Some(state_changes)]

\* BindingEngine._update_audit_with_state_changes
update_audit_with_state_changes(eng, symbol_id, state_changes) ==
    LET hits == {i \in 1..Len(eng.trail) :
                    eng.trail[i].symbol_id = symbol_id /\ eng.trail[i].success}
    IN  IF hits = {} THEN eng
        ELSE LET i == CHOOSE h \in hits : \A g \in hits : g <= h
             IN  [eng EXCEPT !.trail[i].state_changes_applied = Some(state_changes)]

\* a mutation step that applies and records nothing
apply_mutations_none(eng, context, bound, j) ==
    [eng |-> eng, context |-> context, bound |-> bound]

\* lines 257-275: the mutations of the round's bound symbols from the j-th on
RECURSIVE apply_mutations(_, _, _, _)
apply_mutations(eng, context, bound, j) ==
    IF j > Len(bound) THEN [eng |-> eng, context |-> context, bound |-> bound]
    ELSE IF bound[j].effect.state_mutation = None
    THEN apply_mutations(eng, context, bound, j + 1)
    ELSE CHOOSE out \in
         { apply_mutations(
               update_audit_with_state_changes(eng, bound[j].symbol_id, m.state_changes),
               m.context,
               [bound EXCEPT ![j].state_changes_applied = Some(m.state_changes)],
               j + 1)
           : m \in {mutation_items(context, bound[j].effect.state_mutation[1], 1, <<>>)} } : TRUE

\* lines 209-277: the rounds from `iteration` on.  results holds the bound
\* symbols themselves, so the state changes written to a bound symbol after
\* results.extend are seen through results.
RECURSIVE rounds_from(_, _, _, _, _, _, _, _)
rounds_from(eng, context, iteration, max_iterations, apply_state_mutations, consumed_ids, results, rounds) ==
    IF iteration >= max_iterations
    THEN [eng |-> eng, results |-> results, context |-> context, rounds |-> rounds]
    ELSE CHOOSE out \in
         { IF r.bound_this_iteration = <<>>
           THEN [eng |-> r.eng, results |-> results, context |-> context,
                 rounds |-> Append(rounds, r.evals)]
           ELSE CHOOSE out2 \in
                { rounds_from(m.eng, m.context, iteration + 1, max_iterations,
                      apply_state_mutations, r.consumed_ids, results \o m.bound,
                      Append(rounds, r.evals))
                  : m \in { IF apply_state_mutations
                            THEN apply_mutations(r.eng, context, r.bound_this_iteration, 1)
                            ELSE [eng |-> r.eng, context |-> context,
                                  bound |-> r.bound_this_iteration] } } : TRUE
           : r \in {round_items(eng, 1, context, consumed_ids, <<>>, <<>>)} } : TRUE

\* a sweep that walks the registry from its last entry to its first
bind_all_registered_reverse_walk(eng, context, max_iterations, apply_state_mutations) ==
    LET reg == eng.symbol_registry
        rev == [eng EXCEPT !.symbol_registry =
                   [i \in 1..Len(reg) |-> reg[Len(reg) + 1 - i]]]
        r == rounds_from(rev, context, 0, max_iterations, apply_state_mutations,
                         {}, <<>>, <<>>)
    IN  [r EXCEPT !.eng.symbol_registry = reg]

\* a sweep whose rounds start with no unit consumed
RECURSIVE rounds_forgetting_consumed(_, _, _, _, _, _, _)
rounds_forgetting_consumed(eng, context, iteration, max_iterations, apply_state_mutations, results, rounds) ==
    IF iteration >= max_iterations
    THEN [eng |-> eng, results |-> results, context |-> context, rounds |-> rounds]
    ELSE CHOOSE out \in
         { IF r.bound_this_iteration = <<>>
           THEN [eng |-> r.eng, results |-> results, context |-> context,
                 rounds |-> Append(rounds, r.evals)]
           ELSE rounds_forgetting_consumed(r.eng, context, iteration + 1, max_iterations,
                    apply_state_mutations, results \o r.bound_this_iteration,
                    Append(rounds, r.evals))
           : r \in {round_items(eng, 1, context, {}, <<>>, <<>>)} } : TRUE

bind_all_registered_forgets_consumed(eng, context, max_iterations, apply_state_mutations) ==
    rounds_forgetting_consumed(eng, context, 0, max_iterations, apply_state_mutations,
                               <<>>, <<>>)

\* a sweep that applies state mutations whatever the flag says
bind_all_registered_applying(eng, context, max_iterations, apply_state_mutations) ==
    rounds_from(eng, context, 0, max_iterations, TRUE, {}, <<>>, <<>>)

\* a sweep that allows itself one round more than max_iterations
bind_all_registered_extra_round(eng, context, max_iterations, apply_state_mutations) ==
    rounds_from(eng, context, 0, max_iterations + 1, apply_state_mutations, {}, <<>>, <<>>)

\* a sweep whose consumed set starts from the permanent satisfied set
bind_all_registered_consumed_persists(eng, context, max_iterations, apply_state_mutations) ==
    rounds_from(eng, context, 0, max_iterations, apply_state_mutations,
                eng.activated_symbols, <<>>, <<>>)

\* a sweep that returns its bound symbols latest first
bind_all_registered_reversed(eng, context, max_iterations, apply_state_mutations) ==
    LET r == rounds_from(eng, context, 0, max_iterations, apply_state_mutations, {}, <<>>, <<>>)
    IN  [r EXCEPT !.results = [i \in 1..Len(r.results) |-> r.results[Len(r.results) + 1 - i]]]

\* BindingEngine.bind_all_registered: [eng, results, context, rounds]
bind_all_registered(eng, context, max_iterations, apply_state_mutations) ==
    rounds_from(eng, context, 0, max_iterations, apply_state_mutations, {}, <<>>, <<>>)

\* the default of the max_iterations parameter of bind_all_registered
DefaultMaxIterations == 10

\* on_round_complete(self, current_ctx, round_num) for a callback that is
\* None or Some(<<key, value>>): the callback returning
\* current_ctx.with_state_update(key, value)
on_round_complete_call(on_round_complete, current_ctx, round_num) ==
    with_state_update(current_ctx, on_round_complete[1][1], on_round_complete[1][2])

\* lines 321-332 of BindingEngine.bind_with_state_evolution: the loop from
\* round_num on.  last_round is the value the loop variable holds when the
\* loop is left (None while it was never assigned); turns logs, per sweep,
\* its input and output context, the satisfied set before and after it and
\* the arguments of the callback calls that followed it.
RECURSIVE evolution_rounds(_, _, _, _, _, _, _)
evolution_rounds(eng, current_ctx, round_num, max_rounds, on_round_complete, last_round, turns) ==
    IF round_num >= max_rounds
    THEN [eng |-> eng, context |-> current_ctx, last_round |-> last_round, turns |-> turns]
    ELSE CHOOSE out \in
         { LET turn == [input |-> current_ctx, output |-> s.context,
                        before |-> eng.activated_symbols,
                        after |-> s.eng.activated_symbols, hook_calls |-> <<>>]
           IN  IF Cardinality(s.eng.activated_symbols) = Cardinality(eng.activated_symbols)
               THEN [eng |-> s.eng, context |-> s.context, last_round |-> Some(round_num),
                     turns |-> Append(turns, turn)]
               ELSE IF on_round_complete # None
               THEN evolution_rounds(s.eng,
                        on_round_complete_call(on_round_complete, s.context, round_num),
                        round_num + 1, max_rounds, on_round_complete, Some(round_num),
                        Append(turns, [turn EXCEPT !.hook_calls =
                                          <<[context |-> s.context, round_num |-> round_num]>>]))
               ELSE evolution_rounds(s.eng, s.context, round_num + 1, max_rounds,
                        on_round_complete, Some(round_num), Append(turns, turn))
           : s \in {bind_all_registered(eng, current_ctx, DefaultMaxIterations, TRUE)} } : TRUE

\* BindingEngine.bind_with_state_evolution: [eng, ret, raised, turns].  The
\* return statement reads round_num, which is unbound when the loop body
\* never ran.
bind_with_state_evolution(eng, ctx, max_rounds, on_round_complete) ==
    LET r == evolution_rounds(eng, ctx, 0, max_rounds, on_round_complete, None, <<>>)
    IN  IF r.last_round = None
        THEN [eng |-> r.eng, ret |-> None, raised |-> Some("UnboundLocalError"),
              turns |-> r.turns]
        ELSE [eng |-> r.eng, ret |-> Some(<<r.context, r.last_round[1] + 1>>),
              raised |-> None, turns |-> r.turns]

(***************************************************************************)
(* Composition operators (composition.py).  A Bindable is a tuple:         *)
(* <<"Sym", symbol>>, <<"Alternative", left, right>>,                      *)
(* <<"Sequential", left, right>> or <<"Parallel", items>> with a non-empty *)
(* sequence of items.  try_bind returns [eng, result].                     *)
(***************************************************************************)
sym(symbol) == <<"Sym", symbol>>
Alternative(left, right) == <<"Alternative", left, right>>
Sequential(left, right) == <<"Sequential", left, right>>
Parallel(items) == <<"Parallel", items>>

BindingResult(status, bound, bound_all, source) ==
    [status |-> status, bound |-> bound, bound_all |-> bound_all, source |-> source]

BindingResult_success(bound) == BindingResult("bound", Some(bound), None, None)

\* bound_list[-1] is the last bound symbol of a non-empty list
BindingResult_success_all(bound_list) ==
    BindingResult("bound", Some(bound_list[Len(bound_list)]), Some(bound_list), None)

BindingResult_still_latent(symbol) == BindingResult("latent", None, None, Some(symbol))

RECURSIVE try_bind(_, _, _)
RECURSIVE Parallel_items(_, _, _, _, _)

\* Sym.try_bind
Sym_try_bind(expr, context, eng) ==
    CHOOSE out \in
    { [eng |-> b.eng,
       result |-> IF b.ret # None THEN BindingResult_success(b.ret[1])
                  ELSE BindingResult_still_latent(expr[2])]
      : b \in {bind(eng, expr[2], context)} } : TRUE

\* an Alternative that evaluates its right side whatever the left returned
Alternative_try_bind_both(expr, context, eng) ==
    CHOOSE out \in
    { CHOOSE out2 \in
      { IF l.result.status = "bound" THEN [eng |-> r.eng, result |-> l.result] ELSE r
        : r \in {try_bind(expr[3], context, l.eng)} } : TRUE
      : l \in {try_bind(expr[2], context, eng)} } : TRUE

\* an Alternative that never falls back to its right side
Alternative_try_bind_left_only(expr, context, eng) ==
    try_bind(expr[2], context, eng)

\* Alternative.try_bind
Alternative_try_bind(expr, context, eng) ==
    CHOOSE out \in
    { IF l.result.status = "bound" THEN l ELSE try_bind(expr[3], context, l.eng)
      : l \in {try_bind(expr[2], context, eng)} } : TRUE

\* a Sequential that evaluates its right side whatever the left returned
Sequential_try_bind_eager(expr, context, eng) ==
    CHOOSE out \in
    { CHOOSE out2 \in
      { IF l.result.status # "bound" THEN [eng |-> r.eng, result |-> l.result] ELSE r
        : r \in {try_bind(expr[3], context, l.eng)} } : TRUE
      : l \in {try_bind(expr[2], context, eng)} } : TRUE

\* a Sequential that restores the engine it started from when its right
\* side does not bind
Sequential_try_bind_rollback(expr, context, eng) ==
    CHOOSE out \in
    { IF l.result.status # "bound" THEN l
      ELSE CHOOSE out2 \in
           { IF r.result.status # "bound" THEN [eng |-> eng, result |-> r.result] ELSE r
             : r \in {try_bind(expr[3], context, l.eng)} } : TRUE
      : l \in {try_bind(expr[2], context, eng)} } : TRUE

\* Sequential.try_bind
Sequential_try_bind(expr, context, eng) ==
    CHOOSE out \in
    { IF l.result.status # "bound" THEN l ELSE try_bind(expr[3], context, l.eng)
      : l \in {try_bind(expr[2], context, eng)} } : TRUE

\* line 142: the list comprehension over self.items from the i-th item on
Parallel_items(items, i, context, eng, results) ==
    IF i > Len(items) THEN [eng |-> eng, results |-> results]
    ELSE CHOOSE out \in
         { Parallel_items(items, i + 1, context, r.eng, Append(results, r.result))
           : r \in {try_bind(items[i], context, eng)} } : TRUE

\* a Parallel that reports its last non-bound child
Parallel_try_bind_last_latent(expr, context, eng) ==
    CHOOSE out \in
    { IF \A i \in 1..Len(p.results) : p.results[i].status = "bound"
      THEN [eng |-> p.eng,
            result |-> BindingResult_success_all(
                           [i \in 1..Len(p.results) |-> p.results[i].bound[1]])]
      ELSE [eng |-> p.eng,
            result |-> p.results[CHOOSE i \in 1..Len(p.results) :
                                    /\ p.results[i].status # "bound"
                                    /\ \A j \in (i + 1)..Len(p.results) :
                                          p.results[j].status = "bound"]]
      : p \in {Parallel_items(expr[2], 1, context, eng, <<>>)} } : TRUE

\* Parallel.try_bind
Parallel_try_bind(expr, context, eng) ==
    CHOOSE out \in
    { IF \A i \in 1..Len(p.results) : p.results[i].status = "bound"
      THEN [eng |-> p.eng,
            result |-> BindingResult_success_all(
                           [i \in 1..Len(p.results) |-> p.results[i].bound[1]])]
      ELSE [eng |-> p.eng,
            result |-> p.results[CHOOSE i \in 1..Len(p.results) :
                                    /\ p.results[i].status # "bound"
                                    /\ \A j \in 1..(i - 1) :
                                          p.results[j].status = "bound"]]
      : p \in {Parallel_items(expr[2], 1, context, eng, <<>>)} } : TRUE

\* item.try_bind(context, engine), dispatched on the class of the Bindable
try_bind(expr, context, eng) ==
    CASE expr[1] = "Sym" -> Sym_try_bind(expr, context, eng)
      [] expr[1] = "Alternative" -> Alternative_try_bind(expr, context, eng)
      [] expr[1] = "Sequential" -> Sequential_try_bind(expr, context, eng)
      [] expr[1] = "Parallel" -> Parallel_try_bind(expr, context, eng)

(***************************************************************************)
(* Inputs                                                                  *)
(***************************************************************************)
Ids == {"a", "b", "c"}

GateCondition(who, when, where, state) ==
    [who |-> who, when |-> when, where |-> where, state |-> state]

LatentSymbol(id, gate, state_mutation, depends_on, consumption) ==
    [id |-> id, gate |-> gate, payload |-> [state_mutation |-> state_mutation],
     depends_on |-> depends_on, consumption |-> consumption]

Context(who, when, where, state) ==
    [who |-> who, when |-> when, where |-> where, state |-> state]

\* temporal strings "before:<ISO of t>", "after:<ISO of t>", "<op>:<key>"
Before(t) == <<"before", <<"iso", t>>>>
After(t) == <<"after", <<"iso", t>>>>
OnKey(op, k) == <<op, <<"key", k>>>>
\* the state dict {"hasKey": v}
HasKey(v) == << <<"hasKey", v>> >>

Instants == 1..MaxTime

\* The units of the dependency-gating scenario, A (alice), B (depends on a,
\* bob), C (depends on b, alice), and a reusable unit for id a whose actor
\* set is present but empty.
SymA == LatentSymbol("a", GateCondition(Some({"alice"}), None, None, None),
                     None, <<>>, "one_shot")
SymB == LatentSymbol("b", GateCondition(Some({"bob"}), None, None, None),
                     None, <<"a">>, "one_shot")
SymC == LatentSymbol("c", GateCondition(Some({"alice"}), None, None, None),
                     None, <<"b">>, "one_shot")
SymA2 == LatentSymbol("a", GateCondition(Some({}), None, None, None),
                      None, <<>>, "reusable")

\* No unit of the catalogue declares a state mutation or a temporal guard:
\* the sweeps of Spec are called with the default apply_state_mutations and
\* at one instant.
Catalogue == {SymA, SymB, SymC, SymA2}

Contexts == { Context(Some(w), 1, "office", <<>>) : w \in {"alice", "bob"} }

\* Units without a guard that differ in their declared dependencies.  Their
\* registrations build, among others, a self-dependency (c on c), cycles of
\* two and three ids, a diamond without a cycle (a on b and c, b on c) and
\* dependencies on ids that are not registered.
Unguarded(id, depends_on) ==
    LatentSymbol(id, GateCondition(None, None, None, None), None, depends_on, "one_shot")

GraphCatalogue ==
    { Unguarded("a", <<>>), Unguarded("a", <<"b">>), Unguarded("a", <<"b", "c">>),
      Unguarded("a", <<"c">>),
      Unguarded("b", <<>>), Unguarded("b", <<"c">>), Unguarded("b", <<"a">>),
      Unguarded("b", <<"c", "a">>),
      Unguarded("c", <<>>), Unguarded("c", <<"a">>), Unguarded("c", <<"c">>),
      Unguarded("c", <<"b">>) }

\* The units and contexts offered to bind alone: X names a dependency and
\* carries all four guard fields, with an absolute deadline; K has a deadline
\* given by a state key and a location set that is present but empty.
SymX == LatentSymbol("b", GateCondition(Some({"bob"}), Some(Before(2)), Some({"lab"}),
                                        Some(HasKey(TRUE))),
                     None, <<"a">>, "one_shot")
SymK == LatentSymbol("c", GateCondition(None, Some(OnKey("before", "hasKey")), Some({}),
                                        None),
                     None, <<>>, "reusable")

BindCatalogue == {SymA, SymA2, SymX, SymK}

BindContexts ==
    { Context(Some(w), t, l, st) :
        w \in {"alice", "bob"}, t \in Instants, l \in {"office", "lab"},
        st \in {<<>>, HasKey(TRUE)} }

\* The units and contexts of the sweeps of SpecSweep: P (alice) sets hasKey,
\* Q requires hasKey, the office and the satisfied id c, T is reusable and
\* guarded by an absolute deadline.
SymP == LatentSymbol("a", GateCondition(Some({"alice"}), None, None, None),
                     Some(HasKey(TRUE)), <<>>, "one_shot")
SymQ == LatentSymbol("b", GateCondition(None, None, Some({"office"}), Some(HasKey(TRUE))),
                     None, <<"c">>, "one_shot")
SymT == LatentSymbol("c", GateCondition(None, Some(Before(2)), None, None),
                     None, <<>>, "reusable")

SweepCatalogue == {SymP, SymQ, SymT}

SweepContexts ==
    { Context(Some(wtl[1]), wtl[2], wtl[3], <<>>) :
        wtl \in {<<"alice", 1, "office">>, <<"bob", 1, "office">>,
                 <<"alice", 1, "lab">>, <<"alice", MaxTime, "office">>} }

\* Units guarded by a temporal string only: T by an absolute deadline, U by an
\* absolute start, V by "before:<state key>", and their contexts.
SymU == LatentSymbol("a", GateCondition(None, Some(After(1)), None, None),
                     None, <<>>, "one_shot")
SymV == LatentSymbol("b", GateCondition(None, Some(OnKey("before", "hasKey")), None, None),
                     None, <<>>, "one_shot")

ExpiryCatalogue == {SymT, SymU, SymV}

ExpiryContexts ==
    { Context(Some("alice"), ts[1], "office", ts[2]) :
        ts \in {<<1, <<>>>>, <<2, <<>>>>, <<1, HasKey(TRUE)>>} }

\* The units of tests/test_state_mutations.py, with alice for the actor of
\* the test.  The state-driven chain: pick_up_key is SymP (alice, sets
\* hasKey), unlock_door (alice) requires hasKey and sets door_locked to
\* FALSE.  The write conflict: symbol_1 is SymP, symbol_2 (alice) writes
\* hasKey = FALSE.
unlock_door == LatentSymbol("b", GateCondition(Some({"alice"}), None, None,
                                               Some(HasKey(TRUE))),
                            Some(<< <<"door_locked", FALSE>> >>), <<>>, "one_shot")
symbol_2 == LatentSymbol("c", GateCondition(Some({"alice"}), None, None, None),
                         Some(HasKey(FALSE)), <<>>, "one_shot")

CascadeCatalogue == {SymP, unlock_door, symbol_2}

\* the state of the chain's initial context: no key, door locked
NoKeyDoorLocked == << <<"hasKey", FALSE>>, <<"door_locked", TRUE>> >>

\* the contexts of the two tests, and the chain's context for another actor
CascadeContexts ==
    { Context(Some(ws[1]), 1, "office", ws[2]) :
        ws \in {<<"alice", <<>>>>, <<"alice", NoKeyDoorLocked>>,
                <<"bob", NoKeyDoorLocked>>} }

\* Units guarded by a temporal string only, around the instant 1:
\* future_symbol by "after:<1>", past_symbol by "after:<-1>" (a reference
\* earlier than every context), deadline_symbol by "before:<1>", and a unit
\* per string that TemporalExpression.parse rejects (no ':', unknown
\* operator, digit-led reference that is not ISO) or that is empty; the
\* contexts lie before, at and after the instant 1.
future_symbol == LatentSymbol("a", GateCondition(None, Some(After(1)), None, None),
                              None, <<>>, "one_shot")
past_symbol == LatentSymbol("b", GateCondition(None, Some(After(-1)), None, None),
                            None, <<>>, "one_shot")
deadline_symbol == LatentSymbol("c", GateCondition(None, Some(Before(1)), None, None),
                                None, <<>>, "one_shot")

UnparsableWhen ==
    { <<>>, <<"soon">>, <<"during", <<"iso", 1>>>>,
      <<"after", <<"digit", 0>>>>, <<"before", <<"digit", 0>>>> }

WhenCatalogue == {future_symbol, past_symbol, deadline_symbol}

WhenContexts == { Context(Some("alice"), t, "office", <<>>) : t \in 0..MaxTime }

UnparsableCatalogue ==
    { LatentSymbol("c", GateCondition(None, Some(w), None, None), None, <<>>, "one_shot") :
        w \in UnparsableWhen }

UnparsableContext == Context(Some("alice"), 1, "office", <<>>)

\* The units of the composition tests: a (admin, the gate of the
\* Sequential tests), b (user), c (guest) and action (admin, id b); SymD, a
\* unit for id b that admin may bind once a is satisfied; the contexts of
\* the three actors.
sym_a == LatentSymbol("a", GateCondition(Some({"admin"}), None, None, None),
                      None, <<>>, "one_shot")
sym_b == LatentSymbol("b", GateCondition(Some({"user"}), None, None, None),
                      None, <<>>, "one_shot")
sym_c == LatentSymbol("c", GateCondition(Some({"guest"}), None, None, None),
                      None, <<>>, "one_shot")
action == LatentSymbol("b", GateCondition(Some({"admin"}), None, None, None),
                       None, <<>>, "one_shot")
SymD == LatentSymbol("b", GateCondition(Some({"admin"}), None, None, None),
                     None, <<"a">>, "one_shot")

Leaves == {sym_a, sym_b, sym_c, action, SymD}

\* pairs and triples of units with pairwise distinct ids
LeafPairs == {p \in Leaves \X Leaves : p[1].id # p[2].id}
LeafTriples ==
    {t \in Leaves \X Leaves \X Leaves :
        t[1].id # t[2].id /\ t[1].id # t[3].id /\ t[2].id # t[3].id}

CompositionContexts ==
    { Context(Some(who), 1, "app", <<>>) : who \in {"admin", "user", "guest"} }

\* the callbacks of bind_with_state_evolution: none, or one that puts the
\* key into the state
Callbacks == {None, Some(<<"hasKey", TRUE>>)}

\* the lists of one to three pairwise distinct ids
IdLists ==
    {<<i>> : i \in Ids}
       \cup {p \in Ids \X Ids : p[1] # p[2]}
       \cup {t \in Ids \X Ids \X Ids : t[1] # t[2] /\ t[1] # t[3] /\ t[2] # t[3]}

BindAllCatalogue == {sym_a, action, SymD, sym_c}

BindAllContext == Context(Some("admin"), 1, "app", <<>>)

\* The inputs of the checkers taken alone: every combination of the guard
\* field values below (absent, present but empty, present), of temporal
\* strings (empty, without ':', unknown operator, digit-led but not ISO,
\* ISO deadlines, state keys), of dependency lists, contexts and satisfied
\* sets.
WhenStrings ==
    { <<>>, <<"soon">>, <<"during", <<"iso", 1>>>>,
      <<"after", <<"digit", 0>>>>, <<"before", <<"digit", 0>>>>,
      OnKey("after", "hasKey"), OnKey("before", "hasKey"), OnKey("before", "") }
       \cup {Before(t) : t \in Instants} \cup {After(t) : t \in Instants}

CheckerSymbols ==
    { LatentSymbol("c", GateCondition(who, when, where, state), None, deps, "one_shot") :
        who \in {None, Some({}), Some({"alice"})},
        when \in {None} \cup {Some(w) : w \in WhenStrings},
        where \in {None, Some({}), Some({"lab"})},
        state \in {None, Some(<<>>), Some(HasKey(TRUE))},
        deps \in {<<>>, <<"a">>, <<"a", "b">>} }

CheckerContexts ==
    { Context(who, t, l, st) :
        who \in {None, Some("alice"), Some("bob")}, t \in Instants,
        l \in {"office", "lab"}, st \in {<<>>, HasKey(TRUE), HasKey(FALSE)} }

CheckerActivated == {{}, {"a"}, {"a", "b"}}

(***************************************************************************)
(* The state machine                                                       *)
(***************************************************************************)
\* the engine value held in the variables
Eng == Engine(symbol_registry, dependency_graph, activated_symbols, ledger, trail, on_symbol_activated, streaming)

SetEngine(eng) ==
    /\ symbol_registry' = eng.symbol_registry
    /\ dependency_graph' = eng.dependency_graph
    /\ activated_symbols' = eng.activated_symbols
    /\ ledger' = eng.ledger
    /\ trail' = eng.trail
    /\ on_symbol_activated' = eng.on_symbol_activated
    /\ streaming' = eng.streaming

\* lastCall: the most recent call, with its arguments, the satisfied set it
\* started from and its outcome
Call(op) ==
    [op |-> op, symbol |-> None, context |-> None, activated |-> {},
     max_iterations |-> 0, apply_state_mutations |-> FALSE,
     ret |-> None, raised |-> None, cycle |-> None, hook_calls |-> <<>>,
     transition |-> None, expr |-> None, result |-> None, other |-> None,
     symbol_ids |-> <<>>, max_rounds |-> 0, on_round_complete |-> None, turns |-> <<>>,
     results |-> <<>>, final_context |-> None, rounds |-> <<>>,
     matches |-> <<>>, checks |-> <<>>, prefilter |-> FALSE, failure_reasons |-> <<>>]

\* BindingEngine.__init__ with the defaults audit_sink=None and
\* on_symbol_activated=None
Init ==
    /\ symbol_registry = <<>>
    /\ dependency_graph = <<>>
    /\ activated_symbols = {}
    /\ ledger = <<>>
    /\ trail = <<>>
    /\ on_symbol_activated = FALSE
    /\ streaming = StreamingManager(None)
    /\ lastCall = Call("init")

\* BindingEngine.__init__ with or without an on_symbol_activated callback
InitHook ==
    /\ symbol_registry = <<>>
    /\ dependency_graph = <<>>
    /\ activated_symbols = {}
    /\ ledger = <<>>
    /\ trail = <<>>
    /\ on_symbol_activated \in BOOLEAN
    /\ streaming = StreamingManager(None)
    /\ lastCall = Call("init")

Register(symbol) ==
    /\ Len(ledger) < MaxLedger
    /\ LET r == register(Eng, symbol)
       IN  /\ SetEngine(r.eng)
           /\ lastCall' = [Call("register") EXCEPT !.symbol = Some(symbol),
                                                   !.activated = activated_symbols,
                                                   !.raised = r.raised, !.cycle = r.cycle]

Bind(symbol, context) ==
    /\ Len(trail) < MaxTrail
    /\ LET r == bind(Eng, symbol, context)
       IN  /\ SetEngine(r.eng)
           /\ lastCall' = [Call("bind") EXCEPT !.symbol = Some(symbol),
                                               !.context = Some(context),
                                               !.activated = activated_symbols,
                                               !.ret = r.ret, !.raised = r.raised,
                                               !.hook_calls = r.hook_calls]

Sweep(context, max_iterations, apply_state_mutations) ==
    /\ Len(trail) < MaxTrail
    /\ LET r == bind_all_registered(Eng, context, max_iterations, apply_state_mutations)
       IN  /\ SetEngine(r.eng)
           /\ lastCall' = [Call("bind_all_registered") EXCEPT
                              !.context = Some(context),
                              !.activated = activated_symbols,
                              !.max_iterations = max_iterations,
                              !.apply_state_mutations = apply_state_mutations,
                              !.results = r.results,
                              !.final_context = Some(r.context),
                              !.rounds = r.rounds]

BindAll(symbol_ids, context) ==
    /\ Len(trail) < MaxTrail
    /\ LET r == bind_all(Eng, symbol_ids, context)
       IN  /\ SetEngine(r.eng)
           /\ lastCall' = [Call("bind_all") EXCEPT !.symbol_ids = symbol_ids,
                                                   !.context = Some(context),
                                                   !.activated = activated_symbols,
                                                   !.results = r.results,
                                                   !.raised = r.raised]

Evolve(ctx, max_rounds, on_round_complete) ==
    /\ Len(trail) < MaxTrail
    /\ LET r == bind_with_state_evolution(Eng, ctx, max_rounds, on_round_complete)
       IN  /\ SetEngine(r.eng)
           /\ lastCall' = [Call("bind_with_state_evolution") EXCEPT
                              !.context = Some(ctx),
                              !.activated = activated_symbols,
                              !.max_rounds = max_rounds,
                              !.on_round_complete = on_round_complete,
                              !.ret = r.ret, !.raised = r.raised, !.turns = r.turns]

\* composed.try_bind(context, engine)
TryBind(expr, context) ==
    /\ Len(trail) < MaxTrail
    /\ LET r == try_bind(expr, context, Eng)
       IN  /\ SetEngine(r.eng)
           /\ lastCall' = [Call("try_bind") EXCEPT !.expr = Some(expr),
                                                   !.context = Some(context),
                                                   !.activated = activated_symbols,
                                                   !.result = Some(r.result)]

\* (sym(a) | sym(b)) | sym(c) evaluated on the engine and sym(a) | (sym(b) |
\* sym(c)) on a second engine in the same state; `other` holds the outcome
\* of the second
TryBindGroupings(a, b, c, context) ==
    /\ Len(trail) < MaxTrail
    /\ LET left_assoc == Alternative(Alternative(sym(a), sym(b)), sym(c))
           right_assoc == Alternative(sym(a), Alternative(sym(b), sym(c)))
           r == try_bind(left_assoc, context, Eng)
           o == try_bind(right_assoc, context, Eng)
       IN  /\ SetEngine(r.eng)
           /\ lastCall' = [Call("try_bind_groupings") EXCEPT
                              !.expr = Some(<<a, b, c>>),
                              !.context = Some(context),
                              !.activated = activated_symbols,
                              !.result = Some(r.result),
                              !.other = Some(o)]

\* a direct call of BindingEngine._log
Log(symbol_id, from_state, to_state) ==
    /\ Len(ledger) < MaxLedger
    /\ LET r == log(Eng, symbol_id, from_state, to_state, "direct")
       IN  /\ SetEngine(r.eng)
           /\ lastCall' = [Call("_log") EXCEPT
                              !.transition = Some(<<symbol_id, from_state, to_state>>),
                              !.activated = activated_symbols,
                              !.raised = r.raised]

Next ==
    \/ \E symbol \in Catalogue : Register(symbol)
    \/ \E symbol \in Catalogue, context \in Contexts : Bind(symbol, context)
    \/ \E context \in Contexts, n \in 0..MaxRounds : Sweep(context, n, TRUE)

Spec == Init /\ [][Next]_vars

\* registrations and sweeps, over the units of SweepCatalogue
NextSweep ==
    \/ \E symbol \in SweepCatalogue : Register(symbol)
    \/ \E context \in SweepContexts, n \in 0..MaxRounds, apply \in BOOLEAN :
          Sweep(context, n, apply)

SpecSweep == Init /\ [][NextSweep]_vars

\* binds only, over the units of BindCatalogue and the contexts of BindContexts
NextBind == \E symbol \in BindCatalogue, context \in BindContexts : Bind(symbol, context)

SpecBind == Init /\ [][NextBind]_vars

\* registrations, binds and sweeps over the units of ExpiryCatalogue
NextExpiry ==
    \/ \E symbol \in ExpiryCatalogue : Register(symbol)
    \/ \E symbol \in ExpiryCatalogue, context \in ExpiryContexts : Bind(symbol, context)
    \/ \E context \in ExpiryContexts : Sweep(context, MaxRounds, TRUE)

SpecExpiry == Init /\ [][NextExpiry]_vars

\* registrations and sweeps, with and without mutation application, over the
\* units of CascadeCatalogue
NextCascade ==
    \/ \E symbol \in CascadeCatalogue : Register(symbol)
    \/ \E context \in CascadeContexts, n \in 0..MaxRounds, apply \in BOOLEAN :
          Sweep(context, n, apply)

SpecCascade == Init /\ [][NextCascade]_vars

\* registrations and sweeps over the units of WhenCatalogue
NextWhen ==
    \/ \E symbol \in WhenCatalogue : Register(symbol)
    \/ \E context \in WhenContexts : Sweep(context, MaxRounds, TRUE)

SpecWhen == Init /\ [][NextWhen]_vars

\* registrations, binds and sweeps over the units of UnparsableCatalogue
NextUnparsable ==
    \/ \E symbol \in UnparsableCatalogue : Register(symbol)
    \/ \E symbol \in UnparsableCatalogue : Bind(symbol, UnparsableContext)
    \/ Sweep(UnparsableContext, MaxRounds, TRUE)

SpecUnparsable == Init /\ [][NextUnparsable]_vars

\* registrations and state evolutions over the units of CascadeCatalogue
NextEvolve ==
    \/ \E symbol \in CascadeCatalogue : Register(symbol)
    \/ \E ctx \in CascadeContexts, n \in 0..MaxRounds, cb \in Callbacks : Evolve(ctx, n, cb)

SpecEvolve == Init /\ [][NextEvolve]_vars

\* registrations and bind_all over lists of ids, registered or not
NextBindAll ==
    \/ \E symbol \in BindAllCatalogue : Register(symbol)
    \/ \E symbol_ids \in IdLists : BindAll(symbol_ids, BindAllContext)

SpecBindAll == Init /\ [][NextBindAll]_vars

\* Alternative over pairs of units, and both groupings over triples
NextAlternative ==
    \/ \E p \in LeafPairs, context \in CompositionContexts :
          TryBind(Alternative(sym(p[1]), sym(p[2])), context)
    \/ \E t \in LeafTriples, context \in CompositionContexts :
          TryBindGroupings(t[1], t[2], t[3], context)

SpecAlternative == Init /\ [][NextAlternative]_vars

\* Sequential over pairs of units
NextSequential ==
    \E p \in LeafPairs, context \in CompositionContexts :
       TryBind(Sequential(sym(p[1]), sym(p[2])), context)

SpecSequential == Init /\ [][NextSequential]_vars

\* Parallel over single units, pairs and triples of units
NextParallel ==
    \/ \E a \in Leaves, context \in CompositionContexts :
          TryBind(Parallel(<<sym(a)>>), context)
    \/ \E p \in LeafPairs, context \in CompositionContexts :
          TryBind(Parallel(<<sym(p[1]), sym(p[2])>>), context)
    \/ \E t \in LeafTriples, context \in CompositionContexts :
          TryBind(Parallel(<<sym(t[1]), sym(t[2]), sym(t[3])>>), context)

SpecParallel == Init /\ [][NextParallel]_vars

\* registrations and binds of the deadline unit T, before and at its
\* deadline, and direct _log calls with every pair of lifecycle states
NextLedger ==
    \/ Register(SymT)
    \/ \E t \in {1, 2} : Bind(SymT, Context(Some("alice"), t, "office", <<>>))
    \/ \E from_state \in SymbolState, to_state \in SymbolState : Log("c", from_state, to_state)

SpecLedger == Init /\ [][NextLedger]_vars

\* binds only, on an engine constructed with or without the callback
SpecHook == InitHook /\ [][NextBind]_vars

\* The checkers as pure functions: the initial states draw a unit, a context
\* and a satisfied set, and RunCheckers applies matches and check of the six
\* checkers (in pipeline order dependency, expiration, who, where, state,
\* when), the sweep's pre-checks and bind's check loop to them.
InitCheckers ==
    /\ symbol_registry = <<>>
    /\ dependency_graph = <<>>
    /\ activated_symbols = {}
    /\ ledger = <<>>
    /\ trail = <<>>
    /\ on_symbol_activated = FALSE
    /\ streaming = StreamingManager(None)
    /\ lastCall \in { [Call("inputs") EXCEPT !.symbol = Some(symbol),
                                             !.context = Some(context),
                                             !.activated = activated] :
                         symbol \in CheckerSymbols, context \in CheckerContexts,
                         activated \in CheckerActivated }

RunCheckers ==
    /\ lastCall.op = "inputs"
    /\ LET symbol == lastCall.symbol[1]
           context == lastCall.context[1]
           activated == lastCall.activated
       IN  lastCall' =
              [lastCall EXCEPT
                 !.op = "checkers",
                 !.matches = << DependencyChecker_matches(activated, symbol, context),
                                ExpirationChecker_matches(symbol, context),
                                WhoChecker_matches(symbol, context),
                                WhereChecker_matches(symbol, context),
                                StateChecker_matches(symbol, context),
                                WhenChecker_matches(symbol, context) >>,
                 !.checks = << DependencyChecker_check(activated, symbol, context),
                               ExpirationChecker_check(symbol, context),
                               WhoChecker_check(symbol, context),
                               WhereChecker_check(symbol, context),
                               StateChecker_check(symbol, context),
                               WhenChecker_check(symbol, context) >>,
                 !.prefilter = prefilter(activated, symbol, context),
                 !.failure_reasons = failure_reasons(activated, symbol, context)]
    /\ UNCHANGED <<symbol_registry, dependency_graph, activated_symbols, ledger, trail,
                   on_symbol_activated, streaming>>

SpecCheckers == InitCheckers /\ [][RunCheckers]_vars

\* registrations only, over the units of GraphCatalogue
NextGraph == \E symbol \in GraphCatalogue : Register(symbol)

SpecGraph == Init /\ [][NextGraph]_vars

(***************************************************************************)
(* Engines constructed with an audit sink                                  *)
(***************************************************************************)
\* BindingEngine.__init__ with audit_sink a sink whose write returns
InitSink ==
    /\ symbol_registry = <<>>
    /\ dependency_graph = <<>>
    /\ activated_symbols = {}
    /\ ledger = <<>>
    /\ trail = <<>>
    /\ on_symbol_activated = FALSE
    /\ streaming = StreamingManager(Some("recording"))
    /\ lastCall = Call("init")

\* BindingEngine.__init__ with audit_sink a sink whose write raises, and
\* with or without an on_symbol_activated callback
InitFailingSink ==
    /\ symbol_registry = <<>>
    /\ dependency_graph = <<>>
    /\ activated_symbols = {}
    /\ ledger = <<>>
    /\ trail = <<>>
    /\ on_symbol_activated \in BOOLEAN
    /\ streaming = StreamingManager(Some("failing"))
    /\ lastCall = Call("init")

\* BindingEngine.__exit__: leaving the `with` block closes the sink
Exit ==
    /\ SetEngine(StreamingManager_close(Eng))
    /\ lastCall' = [Call("__exit__") EXCEPT !.activated = activated_symbols]

SinkCatalogue == {SymP, unlock_door}

SinkContexts == { Context(Some(w), 1, "office", <<>>) : w \in {"alice", "bob"} }

\* registrations, binds, sweeps and the teardown of an engine that streams
\* its attempts to a recording sink
NextSink ==
    \/ \E symbol \in SinkCatalogue : Register(symbol)
    \/ \E symbol \in SinkCatalogue, context \in SinkContexts : Bind(symbol, context)
    \/ \E context \in SinkContexts, n \in 1..MaxRounds, apply \in BOOLEAN :
          Sweep(context, n, apply)
    \/ Exit

SpecSink == InitSink /\ [][NextSink]_vars

FailingSinkContexts == { Context(Some("alice"), t, "office", <<>>) : t \in Instants }

\* binds on an engine whose sink raises on every write
NextFailingSink ==
    \E symbol \in BindCatalogue, context \in FailingSinkContexts : Bind(symbol, context)

SpecFailingSink == InitFailingSink /\ [][NextFailingSink]_vars

(***************************************************************************)
(* Explanations of the attempt log                                         *)
(***************************************************************************)
\* engine.audit.explain(symbol_id)
Explain(symbol_id) ==
    /\ lastCall' = [Call("explain") EXCEPT !.symbol_ids = <<symbol_id>>,
                                           !.activated = activated_symbols,
                                           !.ret = Some(AuditManager_explain(Eng, symbol_id))]
    /\ UNCHANGED <<symbol_registry, dependency_graph, activated_symbols, ledger, trail,
                   on_symbol_activated, streaming>>

\* binds, and explanations asked between them
NextExplain ==
    \/ \E symbol \in BindCatalogue, context \in SinkContexts : Bind(symbol, context)
    \/ \E symbol_id \in Ids : Explain(symbol_id)

SpecExplain == Init /\ [][NextExplain]_vars

(***************************************************************************)
(* Re-registration and rejected registration                               *)
(***************************************************************************)
\* two ids, each with and without a dependency on the other
ReregisterCatalogue ==
    { Unguarded("a", <<>>), Unguarded("a", <<"b">>),
      Unguarded("b", <<>>), Unguarded("b", <<"a">>) }

ReregisterContext == Context(Some("alice"), 1, "office", <<>>)

\* registrations (first ones, replacements, rejected ones), binds and sweeps
NextReregister ==
    \/ \E symbol \in ReregisterCatalogue : Register(symbol)
    \/ \E symbol \in ReregisterCatalogue : Bind(symbol, ReregisterContext)
    \/ \E n \in 1..MaxRounds : Sweep(ReregisterContext, n, FALSE)

SpecReregister == Init /\ [][NextReregister]_vars

\* Sequential and Parallel over pairs of units, and an Alternative whose left
\* side is a Sequential
NextRollback ==
    \/ \E p \in LeafPairs, context \in CompositionContexts :
          TryBind(Sequential(sym(p[1]), sym(p[2])), context)
    \/ \E p \in LeafPairs, context \in CompositionContexts :
          TryBind(Parallel(<<sym(p[1]), sym(p[2])>>), context)
    \/ \E t \in LeafTriples, context \in CompositionContexts :
          TryBind(Alternative(Sequential(sym(t[1]), sym(t[2])), sym(t[3])), context)

SpecRollback == Init /\ [][NextRollback]_vars

(***************************************************************************)
(* Dependency chains (tests/test_dependency_semantics.py)                  *)
(***************************************************************************)
\* the chain a <- b <- c of test_dependency_chain_success, every unit open
\* to alice: symbol_a is SymA, symbol_c is SymC
symbol_b == LatentSymbol("b", GateCondition(Some({"alice"}), None, None, None),
                         None, <<"a">>, "one_shot")

\* the chain, and the reusable unit SymA2 of id a
ChainCatalogue == {SymA, symbol_b, SymC, SymA2}

ChainContext == Context(Some("alice"), 1, "office", <<>>)

\* the round caps of the sweeps: up to one more than MaxRounds, and the
\* default of max_iterations
ChainRounds == (1..(MaxRounds + 1)) \cup {DefaultMaxIterations}

\* registrations in any order, and sweeps without mutation application
NextChain ==
    \/ \E symbol \in ChainCatalogue : Register(symbol)
    \/ \E n \in ChainRounds : Sweep(ChainContext, n, FALSE)

SpecChain == Init /\ [][NextChain]_vars

(***************************************************************************)
(* Properties                                                              *)
(***************************************************************************)
\* the evaluations of the last sweep, all rounds in order
RECURSIVE Flatten(_)
Flatten(ss) == IF ss = <<>> THEN <<>> ELSE Head(ss) \o Flatten(Tail(ss))

Evals == Flatten(lastCall.rounds)

\* positions of the attempt log holding a successful attempt of id
SuccessAt(id) == {i \in 1..Len(trail) : trail[i].symbol_id = id /\ trail[i].success}

\* the attempt log before the last sweep started (a sweep with no round
\* appended nothing)
SweepBase == IF Evals = <<>> THEN Len(trail) ELSE Evals[1].trail_from

\* the kinds of the checkers that do not match, in pipeline order
FailingKinds(activated, symbol, context) ==
    LET Fails(kind) ==
           CASE kind = "dependency" -> ~DependencyChecker_matches(activated, symbol, context)
             [] kind = "expired" -> ~ExpirationChecker_matches(symbol, context)
             [] kind = "who" -> ~WhoChecker_matches(symbol, context)
             [] kind = "where" -> ~WhereChecker_matches(symbol, context)
             [] kind = "state" -> ~StateChecker_matches(symbol, context)
             [] kind = "when" -> ~WhenChecker_matches(symbol, context)
    IN  SelectSeq(<<"dependency", "expired", "who", "where", "state", "when">>, Fails)

\* the five pre-checks of an evaluation, against the context and satisfied
\* set it was evaluated with
PreChecksHold(ev) ==
    /\ DependencyChecker_matches(ev.activated, ev.symbol, ev.context)
    /\ WhenChecker_matches(ev.symbol, ev.context)
    /\ StateChecker_matches(ev.symbol, ev.context)
    /\ WhoChecker_matches(ev.symbol, ev.context)
    /\ WhereChecker_matches(ev.symbol, ev.context)

\* the six checks of an evaluation all pass
FullCheckHolds(ev) == FailingKinds(ev.activated, ev.symbol, ev.context) = <<>>

\* C1: in every round of a sweep a unit whose pre-checks fail gets no
\* attempt-log entry, a unit whose pre-checks pass but whose full check fails
\* gets exactly one, unsuccessful, and no unit gets more than one: each
\* registry id is evaluated at most once per round, an evaluation appends at
\* most one entry, of its own unit, and the sweep appends nothing else.
C1_LatentVersusAttempted ==
    lastCall.op = "bind_all_registered" =>
       /\ \A r \in 1..Len(lastCall.rounds) :
             \A k1, k2 \in 1..Len(lastCall.rounds[r]) :
                lastCall.rounds[r][k1].symbol.id = lastCall.rounds[r][k2].symbol.id
                   => k1 = k2
       /\ \A k \in 1..Len(Evals) :
             /\ Evals[k].trail_from = (IF k = 1 THEN SweepBase ELSE Evals[k - 1].trail_to)
             /\ Evals[k].trail_to \in {Evals[k].trail_from, Evals[k].trail_from + 1}
             /\ Evals[k].trail_to > Evals[k].trail_from =>
                   trail[Evals[k].trail_to].symbol_id = Evals[k].symbol.id
             /\ ~PreChecksHold(Evals[k]) => Evals[k].trail_to = Evals[k].trail_from
             /\ (~Evals[k].skipped /\ PreChecksHold(Evals[k]) /\ ~FullCheckHolds(Evals[k])) =>
                   /\ Evals[k].trail_to = Evals[k].trail_from + 1
                   /\ ~trail[Evals[k].trail_to].success
       /\ Len(trail) = (IF Evals = <<>> THEN SweepBase ELSE Evals[Len(Evals)].trail_to)

\* C1 witness: a sweep of two rounds or more whose first round left one unit
\* latent on a failing pre-check and attempted another
C1_Witness ==
    /\ lastCall.op = "bind_all_registered"
    /\ Len(lastCall.rounds) >= 2
    /\ \E k \in 1..Len(lastCall.rounds[1]) :
          /\ ~lastCall.rounds[1][k].skipped
          /\ ~PreChecksHold(lastCall.rounds[1][k])
    /\ \E k \in 1..Len(lastCall.rounds[1]) :
          lastCall.rounds[1][k].trail_to > lastCall.rounds[1][k].trail_from

\* C7: every successful attempt of a unit comes after a successful attempt
\* of each of its declared dependencies; a sweep attempts a unit only while
\* all its declared dependencies are in the satisfied set; and on a fresh
\* satisfied set with exactly A, B, C registered, a sweep as alice with at
\* least one round binds only a and attempts only a.
C7_DependencyGating ==
    /\ (lastCall.op = "bind" /\ lastCall.ret # None) =>
          \A d \in Range(lastCall.symbol[1].depends_on) :
             \E i \in SuccessAt(d) : i < Len(trail)
    /\ lastCall.op = "bind_all_registered" =>
          /\ \A k \in 1..Len(Evals) :
                Evals[k].trail_to > Evals[k].trail_from =>
                   \A d \in Range(Evals[k].symbol.depends_on) :
                      /\ d \in Evals[k].activated
                      /\ \E i \in SuccessAt(d) : i <= Evals[k].trail_from
          /\ ( /\ {symbol_registry[i][2] : i \in 1..Len(symbol_registry)}
                     = {SymA, SymB, SymC}
               /\ lastCall.activated = {}
               /\ lastCall.context[1].who = Some("alice")
               /\ lastCall.max_iterations >= 1 ) =>
                /\ [i \in 1..Len(lastCall.results) |-> lastCall.results[i].symbol_id]
                      = <<"a">>
                /\ Len(trail) = SweepBase + 1
                /\ trail[Len(trail)].symbol_id = "a"
                /\ trail[Len(trail)].success

\* C7 witness: the A, B, C sweep as alice on a fresh satisfied set happened
C7_Witness ==
    /\ lastCall.op = "bind_all_registered"
    /\ {symbol_registry[i][2] : i \in 1..Len(symbol_registry)} = {SymA, SymB, SymC}
    /\ lastCall.activated = {}
    /\ lastCall.context[1].who = Some("alice")
    /\ lastCall.max_iterations >= 1
    /\ activated_symbols = {"a"}

\* C8: the satisfied set only grows, and the ids that enter it in a step are
\* exactly the ids of the successful attempts appended in that step.
C8_SatisfiedOnlyGrows ==
    [][ /\ activated_symbols \subseteq activated_symbols'
        /\ activated_symbols' =
              activated_symbols \cup
                 {trail'[i].symbol_id : i \in {j \in (Len(trail) + 1)..Len(trail') :
                                                  trail'[j].success}} ]_vars

\* C8 witness: a satisfied id was registered again, after a reusable unit was
\* bound twice, and is still satisfied
C8_Witness ==
    /\ lastCall.op = "register"
    /\ lastCall.raised = None
    /\ lastCall.symbol[1].id \in activated_symbols
    /\ Cardinality(SuccessAt(lastCall.symbol[1].id)) >= 2

\* C10: a bind that returns nothing appends exactly one attempt, an
\* unsuccessful one of that unit and context, and leaves the satisfied set,
\* the registry and the dependency graph as they were; so does its repetition.
C10_FailedBindIdempotent ==
    [][ (lastCall'.op = "bind" /\ lastCall'.ret = None) =>
           /\ Len(trail') = Len(trail) + 1
           /\ SubSeq(trail', 1, Len(trail)) = trail
           /\ trail'[Len(trail')].symbol_id = lastCall'.symbol[1].id
           /\ trail'[Len(trail')].context_snapshot = lastCall'.context[1]
           /\ ~trail'[Len(trail')].success
           /\ activated_symbols' = activated_symbols
           /\ symbol_registry' = symbol_registry
           /\ dependency_graph' = dependency_graph ]_vars

\* C10 witness: the same failing bind was made twice in a row
C10_Witness ==
    /\ lastCall.op = "bind"
    /\ lastCall.ret = None
    /\ Len(trail) >= 2
    /\ trail[Len(trail)] = trail[Len(trail) - 1]
    /\ ~trail[Len(trail)].success

\* the dependency edges <<id, dependency id>> of a stored graph
Edges(graph) ==
    UNION {{<<graph[i][1], d>> : d \in Range(graph[i][2])} : i \in 1..Len(graph)}

\* the ids reachable from the ids S along at most n edges of E
RECURSIVE ReachIn(_, _, _)
ReachIn(E, S, n) ==
    IF n = 0 THEN S
    ELSE ReachIn(E, S \cup {e[2] : e \in {f \in E : f[1] \in S}}, n - 1)

\* E has a directed cycle: some edge's source is reachable from its target
HasCycle(E) == \E e \in E : e[1] \in ReachIn(E, {e[2]}, Cardinality(E))

\* C3 (as claimed): the stored dependency graph has no directed cycle
C3_GraphAcyclic == ~HasCycle(Edges(dependency_graph))

\* C4 (as claimed): a register that raises the cycle error leaves the
\* registry, the graph, the satisfied set, the ledger and the attempt log as
\* they were
C4_RejectedRegisterNoMutation ==
    [][ (lastCall'.op = "register" /\ lastCall'.raised = Some("CircularDependencyError")) =>
           /\ symbol_registry' = symbol_registry
           /\ dependency_graph' = dependency_graph
           /\ activated_symbols' = activated_symbols
           /\ ledger' = ledger
           /\ trail' = trail ]_vars

\* the edges once symbol's declared dependencies replace those stored for its id
CandidateEdges(graph, symbol) ==
    {e \in Edges(graph) : e[1] # symbol.id}
       \cup {<<symbol.id, d>> : d \in Range(symbol.depends_on)}

\* C5: register raises the cycle error exactly when the graph with the
\* unit's declared dependencies in place has a directed cycle, and the
\* reported path starts and ends with the same id and follows declared edges.
C5_CycleErrorIffCycle ==
    [][ lastCall'.op = "register" =>
          LET E == CandidateEdges(dependency_graph, lastCall'.symbol[1])
          IN  /\ (lastCall'.raised = Some("CircularDependencyError")) <=> HasCycle(E)
              /\ lastCall'.raised = None => lastCall'.cycle = None
              /\ lastCall'.raised # None =>
                    LET path == lastCall'.cycle[1]
                    IN  /\ Len(path) >= 2
                        /\ path[1] = path[Len(path)]
                        /\ \A k \in 1..(Len(path) - 1) : <<path[k], path[k + 1]>> \in E ]_vars

\* C5 witness: a register was rejected with a reported cycle of three edges
C5_Witness ==
    /\ lastCall.op = "register"
    /\ lastCall.raised = Some("CircularDependencyError")
    /\ Len(lastCall.cycle[1]) = 4

\* the guard as the claim reads it: a field that is present (not None) must
\* hold, membership for the actor and location sets
GuardHolds(gate, context) ==
    /\ gate.who # None => (context.who # None /\ context.who[1] \in gate.who[1])
    /\ gate.where # None => context.where \in gate.where[1]
    /\ gate.state # None =>
          \A i \in 1..Len(gate.state[1]) :
             DictGet(context.state, gate.state[1][i][1]) = Some(gate.state[1][i][2])
    /\ gate.when # None =>
          LET expr == TemporalExpression_parse(gate.when[1])
          IN  expr.kind # "error" /\ Evaluable_evaluate(expr, context)

\* C6 (as claimed): bind returns a BoundResult exactly when every declared
\* dependency is satisfied and every guard field that is present holds, a
\* present but empty actor or location set holding for no context
C6_BindIffGuardHolds ==
    lastCall.op = "bind" =>
       ( lastCall.ret # None <=>
            /\ Range(lastCall.symbol[1].depends_on) \subseteq lastCall.activated
            /\ GuardHolds(lastCall.symbol[1].gate, lastCall.context[1]) )

\* C9: a bind with a failing checker returns nothing, raises nothing and
\* appends exactly one unsuccessful attempt holding one diagnostic per
\* failing checker, in the order dependency, expired, who, where, state, when.
C9_AllDiagnosticsCollected ==
    [][ ( /\ lastCall'.op = "bind"
          /\ FailingKinds(activated_symbols, lastCall'.symbol[1], lastCall'.context[1])
                # <<>> ) =>
           /\ lastCall'.ret = None
           /\ lastCall'.raised = None
           /\ Len(trail') = Len(trail) + 1
           /\ SubSeq(trail', 1, Len(trail)) = trail
           /\ trail'[Len(trail')].symbol_id = lastCall'.symbol[1].id
           /\ ~trail'[Len(trail')].success
           /\ [i \in 1..Len(trail'[Len(trail')].failure_reasons) |->
                  trail'[Len(trail')].failure_reasons[i].condition_type]
                 = FailingKinds(activated_symbols, lastCall'.symbol[1],
                                lastCall'.context[1]) ]_vars

\* C9 witness: a failed bind recorded all six diagnostics
C9_Witness ==
    /\ lastCall.op = "bind"
    /\ lastCall.ret = None
    /\ Len(trail[Len(trail)].failure_reasons) = 6

\* C2: the sweep's pre-checks accept a unit exactly when bind's six checks
\* return no diagnostic, and each checker's matches is true exactly when its
\* check returns nothing.
C2_PrefilterEquivalentToChecks ==
    lastCall.op = "checkers" =>
       /\ lastCall.prefilter <=> (lastCall.failure_reasons = <<>>)
       /\ \A i \in 1..6 : lastCall.matches[i] <=> (lastCall.checks[i] = None)

\* C2 witness: the checkers ran on a unit whose only failing guard is a
\* temporal string that cannot be parsed
C2_Witness ==
    /\ lastCall.op = "checkers"
    /\ lastCall.symbol[1].gate.when # None
    /\ TemporalExpression_parse(lastCall.symbol[1].gate.when[1]).kind = "error"
    /\ lastCall.failure_reasons = <<FailureReason("when")>>
    /\ ~lastCall.prefilter

\* C11: a bind whose six checks all pass adds the unit id to the satisfied
\* set, appends exactly one dormant -> activated transition and exactly one
\* successful attempt, invokes the callback exactly once when one is set (and
\* not at all otherwise) and returns the bound symbol; the callback sees the
\* id in the satisfied set, the transition in the ledger and the attempt in
\* the log; a failed bind invokes no callback.
C11_SuccessfulBindEffects ==
    [][ lastCall'.op = "bind" =>
          LET symbol == lastCall'.symbol[1]
              context == lastCall'.context[1]
          IN  /\ FailingKinds(activated_symbols, symbol, context) = <<>> =>
                    /\ lastCall'.ret = Some(BoundSymbol(symbol, context))
                    /\ lastCall'.raised = None
                    /\ activated_symbols' = activated_symbols \cup {symbol.id}
                    /\ ledger' = Append(ledger,
                                        StateTransition(symbol.id, "dormant", "activated",
                                                        "Binding success"))
                    /\ Len(trail') = Len(trail) + 1
                    /\ SubSeq(trail', 1, Len(trail)) = trail
                    /\ trail'[Len(trail')].symbol_id = symbol.id
                    /\ trail'[Len(trail')].success
                    /\ Len(lastCall'.hook_calls) = (IF on_symbol_activated THEN 1 ELSE 0)
                    /\ \A i \in 1..Len(lastCall'.hook_calls) :
                          /\ lastCall'.hook_calls[i].symbol = symbol
                          /\ lastCall'.hook_calls[i].context = context
                          /\ lastCall'.hook_calls[i].bound = lastCall'.ret[1]
                          /\ lastCall'.hook_calls[i].activated_symbols = activated_symbols'
                          /\ lastCall'.hook_calls[i].ledger = ledger'
                          /\ lastCall'.hook_calls[i].trail = trail'
              /\ lastCall'.ret = None => lastCall'.hook_calls = <<>> ]_vars

\* C11 witness: a successful bind on an engine with a callback, which ran once
C11_Witness ==
    /\ lastCall.op = "bind"
    /\ lastCall.ret # None
    /\ on_symbol_activated
    /\ Len(lastCall.hook_calls) = 1
    /\ lastCall.symbol[1].id \in lastCall.hook_calls[1].activated_symbols

\* the five legal pairs of the lifecycle
LegalPairs ==
    { <<"created", "dormant">>, <<"dormant", "activated">>, <<"dormant", "expired">>,
      <<"activated", "archived">>, <<"activated", "dormant">> }

\* C12: every transition in the ledger is one of the five legal pairs, and
\* recording a transition of any other pair raises and leaves the ledger as
\* it was, while a legal pair is appended.
C12_OnlyLegalTransitions ==
    [][ /\ \A i \in 1..Len(ledger') :
             <<ledger'[i].from_state, ledger'[i].to_state>> \in LegalPairs
        /\ lastCall'.op = "_log" =>
             LET t == lastCall'.transition[1]
             IN  IF <<t[2], t[3]>> \in LegalPairs
                 THEN /\ lastCall'.raised = None
                      /\ ledger' = Append(ledger, StateTransition(t[1], t[2], t[3], "direct"))
                 ELSE /\ lastCall'.raised = Some("ValueError")
                      /\ ledger' = ledger ]_vars

\* C12 witness: a transition out of expired was refused on a ledger that
\* holds a dormant -> expired transition
C12_Witness ==
    /\ lastCall.op = "_log"
    /\ lastCall.raised = Some("ValueError")
    /\ lastCall.transition[1][2] = "expired"
    /\ \E i \in 1..Len(ledger) : ledger[i].to_state = "expired"

\* the ledger's transitions of one unit id, in order
LedgerOf(id) == SelectSeq(ledger, LAMBDA t : t.symbol_id = id)

\* C13 (as claimed): per unit id the ledger's transitions form a path that
\* starts at created, each from-state being the previous to-state
C13_LedgerIsPathPerUnit ==
    \A id \in Ids :
       /\ LedgerOf(id) # <<>> => LedgerOf(id)[1].from_state = "created"
       /\ \A i \in 2..Len(LedgerOf(id)) :
             LedgerOf(id)[i].from_state = LedgerOf(id)[i - 1].to_state

\* the temporal string is "before:<ISO datetime>"
IsAbsoluteDeadline(when) == Len(when) = 2 /\ when[1] = "before" /\ when[2][1] = "iso"

\* the dormant -> expired transitions of id appended to the ledger in a step
NewExpired(id) ==
    {i \in (Len(ledger) + 1)..Len(ledger') :
        ledger'[i] = StateTransition(id, "dormant", "expired", "Deadline passed")}

\* the condition types of the reasons of an attempt
KindsOf(attempt) == {attempt.failure_reasons[i].condition_type :
                        i \in 1..Len(attempt.failure_reasons)}

\* C14: a bind of a unit guarded by "before:<ISO datetime>" at or past that
\* instant returns nothing, records one failed attempt holding an expired and
\* a when diagnostic and appends one dormant -> expired transition of the
\* unit; a bind of a unit guarded by "before:<state key>" or by "after:..."
\* records no expired diagnostic and appends no transition into expired.
C14_ExpiredOnlyForAbsoluteDeadline ==
    [][ (lastCall'.op = "bind" /\ lastCall'.symbol[1].gate.when # None) =>
          LET symbol == lastCall'.symbol[1]
              when == symbol.gate.when[1]
              context == lastCall'.context[1]
          IN  /\ (IsAbsoluteDeadline(when) /\ ~(context.when < when[2][2])) =>
                    /\ lastCall'.ret = None
                    /\ lastCall'.raised = None
                    /\ Len(trail') = Len(trail) + 1
                    /\ SubSeq(trail', 1, Len(trail)) = trail
                    /\ ~trail'[Len(trail')].success
                    /\ trail'[Len(trail')].symbol_id = symbol.id
                    /\ {"expired", "when"} \subseteq KindsOf(trail'[Len(trail')])
                    /\ ledger' = Append(ledger, StateTransition(symbol.id, "dormant",
                                                                "expired", "Deadline passed"))
              /\ (Len(when) = 2 /\ ~IsAbsoluteDeadline(when)) =>
                    /\ \A i \in (Len(trail) + 1)..Len(trail') :
                          "expired" \notin KindsOf(trail'[i])
                    /\ \A i \in (Len(ledger) + 1)..Len(ledger') :
                          ledger'[i].to_state # "expired" ]_vars

\* C14 witness: a bind past the absolute deadline recorded expired and when,
\* after a bind with a failing "before:<state key>" guard recorded when alone
C14_Witness ==
    /\ lastCall.op = "bind"
    /\ Len(trail) >= 2
    /\ KindsOf(trail[Len(trail)]) = {"expired", "when"}
    /\ trail[Len(trail) - 1].symbol_id = "b"
    /\ KindsOf(trail[Len(trail) - 1]) = {"when"}
    /\ ledger # <<>>
    /\ ledger[Len(ledger)].to_state = "expired"

\* the units of the registry
Registered == {symbol_registry[i][2] : i \in 1..Len(symbol_registry)}

\* C15 (as claimed): a sweep of at least one round at or past the absolute
\* deadline of a registered unit whose dependencies and other guard fields
\* hold appends a dormant -> expired transition of that unit
C15_SweepLogsExpired ==
    [][ (lastCall'.op = "bind_all_registered" /\ lastCall'.max_iterations >= 1) =>
          \A symbol \in Registered :
             ( /\ symbol.gate.when # None
               /\ IsAbsoluteDeadline(symbol.gate.when[1])
               /\ ~(lastCall'.context[1].when < symbol.gate.when[1][2][2])
               /\ FailingKinds(activated_symbols, symbol, lastCall'.context[1])
                     = <<"expired", "when">> )
             => NewExpired(symbol.id) # {} ]_vars

\* a dormant -> expired transition of id is in the ledger
ExpiredLogged(id) ==
    \E i \in 1..Len(ledger) : ledger[i].symbol_id = id /\ ledger[i].to_state = "expired"

\* C16: once a dormant -> expired transition of a unit is in the ledger, a
\* bind with a context that passes its six checks still returns the bound
\* symbol and adds the id to the satisfied set, and a sweep of at least one
\* round whose context passes them attempts the registered unit in its first
\* round, binds it and adds the id to the satisfied set.
C16_ExpiredDoesNotBlock ==
    [][ /\ (lastCall'.op = "bind" /\ ExpiredLogged(lastCall'.symbol[1].id)
              /\ FailingKinds(activated_symbols, lastCall'.symbol[1],
                              lastCall'.context[1]) = <<>>) =>
             /\ lastCall'.ret # None
             /\ trail'[Len(trail')].success
             /\ trail'[Len(trail')].symbol_id = lastCall'.symbol[1].id
             /\ lastCall'.symbol[1].id \in activated_symbols'
        /\ (lastCall'.op = "bind_all_registered" /\ lastCall'.max_iterations >= 1) =>
             \A symbol \in Registered :
                ( /\ ExpiredLogged(symbol.id)
                  /\ FailingKinds(activated_symbols, symbol, lastCall'.context[1]) = <<>> )
                => /\ symbol.id \in activated_symbols'
                   /\ \E k \in 1..Len(lastCall'.rounds[1]) :
                         /\ lastCall'.rounds[1][k].symbol = symbol
                         /\ lastCall'.rounds[1][k].called
                         /\ trail'[lastCall'.rounds[1][k].trail_to].success
                         /\ trail'[lastCall'.rounds[1][k].trail_to].symbol_id = symbol.id
                   /\ \E i \in 1..Len(lastCall'.results) :
                         lastCall'.results[i].symbol_id = symbol.id ]_vars

\* C16 witness: a sweep bound the deadline unit c after a dormant -> expired
\* transition of c was logged
C16_Witness ==
    /\ lastCall.op = "bind_all_registered"
    /\ \E i \in 1..Len(lastCall.results) : lastCall.results[i].symbol_id = "c"
    /\ \E i, j \in 1..Len(ledger) :
          /\ i < j
          /\ ledger[i].symbol_id = "c" /\ ledger[i].to_state = "expired"
          /\ ledger[j].symbol_id = "c" /\ ledger[j].to_state = "activated"

\* a state dict after the items of a mutation map are written in order
RECURSIVE ApplyItems(_, _)
ApplyItems(state, items) ==
    IF items = <<>> THEN state
    ELSE ApplyItems(DictSet(state, Head(items)[1], Head(items)[2]), Tail(items))

\* the evaluations of evs that bound their unit
BoundEvals(evs) ==
    SelectSeq(evs, LAMBDA ev : ev.trail_to > ev.trail_from /\ trail[ev.trail_to].success)

\* a state dict after the mutation maps of the units of the evaluations evs
\* are written, in order
RECURSIVE StateAfter(_, _)
StateAfter(state, evs) ==
    IF evs = <<>> THEN state
    ELSE StateAfter(IF Head(evs).symbol.payload.state_mutation = None THEN state
                    ELSE ApplyItems(state, Head(evs).symbol.payload.state_mutation[1]),
                    Tail(evs))

\* C17: in a sweep with mutation application every evaluation of round 1 is
\* made against the input context and every evaluation of round r + 1 against
\* the context of round r with the mutations of the units bound in round r,
\* so no unit sees a mutation of its own round; a unit whose pre-checks hold
\* in its round is attempted and bound there; and P, Q swept as alice from
\* hasKey = FALSE with two rounds or more binds P then Q and returns
\* hasKey = TRUE, P's recorded change being hasKey: FALSE -> TRUE.
C17_MutationsVisibleNextRound ==
    (lastCall.op = "bind_all_registered" /\ lastCall.apply_state_mutations) =>
       /\ \A r \in 1..Len(lastCall.rounds) :
             \A k \in 1..Len(lastCall.rounds[r]) :
                LET ev == lastCall.rounds[r][k]
                IN  /\ ev.context.who = lastCall.context[1].who
                    /\ ev.context.when = lastCall.context[1].when
                    /\ ev.context.where = lastCall.context[1].where
                    /\ ev.context.state =
                          (IF r = 1 THEN lastCall.context[1].state
                           ELSE StateAfter(lastCall.rounds[r - 1][1].context.state,
                                           BoundEvals(lastCall.rounds[r - 1])))
                    /\ (~ev.skipped /\ PreChecksHold(ev)) =>
                          /\ ev.trail_to = ev.trail_from + 1
                          /\ trail[ev.trail_to].success
                    /\ ~PreChecksHold(ev) => ev.trail_to = ev.trail_from
       /\ ( /\ Registered = {SymP, unlock_door}
            /\ lastCall.context[1].who = Some("alice")
            /\ lastCall.context[1].state = NoKeyDoorLocked
            /\ lastCall.max_iterations >= 2 ) =>
             /\ [i \in 1..Len(lastCall.results) |-> lastCall.results[i].symbol_id]
                   = <<"a", "b">>
             /\ lastCall.final_context[1].state
                   = << <<"hasKey", TRUE>>, <<"door_locked", FALSE>> >>
             /\ lastCall.results[1].state_changes_applied =
                   Some(<<[key |-> "hasKey", old |-> Some(FALSE), new |-> TRUE]>>)
             /\ lastCall.results[2].state_changes_applied =
                   Some(<<[key |-> "door_locked", old |-> Some(TRUE), new |-> FALSE]>>)

\* C17 witness: the P, Q sweep from hasKey = FALSE, with Q registered before
\* P, left Q latent in round 1 and bound it in round 2
C17_Witness ==
    /\ lastCall.op = "bind_all_registered"
    /\ lastCall.apply_state_mutations
    /\ Registered = {SymP, unlock_door}
    /\ symbol_registry[1][2] = unlock_door
    /\ lastCall.context[1].state = NoKeyDoorLocked
    /\ Len(lastCall.rounds) >= 2
    /\ ~lastCall.rounds[1][1].called
    /\ lastCall.rounds[2][1].called
    /\ lastCall.final_context[1].state = << <<"hasKey", TRUE>>, <<"door_locked", FALSE>> >>

\* the change records (key, value held just before the write, new value) of
\* the items of a mutation map written in order to a state dict
RECURSIVE ChangesOf(_, _)
ChangesOf(state, items) ==
    IF items = <<>> THEN <<>>
    ELSE <<[key |-> Head(items)[1], old |-> DictGet(state, Head(items)[1]),
            new |-> Head(items)[2]]>>
         \o ChangesOf(DictSet(state, Head(items)[1], Head(items)[2]), Tail(items))

\* the changes expected on the i-th bound evaluation of a sweep from state
ExpectedChanges(state, bound, i) ==
    IF bound[i].symbol.payload.state_mutation = None THEN None
    ELSE Some(ChangesOf(StateAfter(state, SubSeq(bound, 1, i - 1)),
                        bound[i].symbol.payload.state_mutation[1]))

\* C18: after a sweep with mutation application the final context is the
\* input context with its state overwritten by the mutation maps of the bound
\* results in result order (so the later unit wins a conflict), and every
\* bound result and its attempt-log entry carry the change records (key,
\* value held just before the write, new value) of its own map, or none if
\* it declares no mutation.
C18_FinalStateAndChangeRecords ==
    (lastCall.op = "bind_all_registered" /\ lastCall.apply_state_mutations) =>
       LET bound == BoundEvals(Evals)
           input == lastCall.context[1]
       IN  /\ Len(lastCall.results) = Len(bound)
           /\ lastCall.final_context[1] =
                 [input EXCEPT !.state = StateAfter(input.state, bound)]
           /\ \A i \in 1..Len(bound) :
                 /\ lastCall.results[i].symbol_id = bound[i].symbol.id
                 /\ lastCall.results[i].state_changes_applied =
                       ExpectedChanges(input.state, bound, i)
                 /\ trail[bound[i].trail_to].state_changes_applied =
                       ExpectedChanges(input.state, bound, i)

\* C18 witness: P and symbol_2 were bound in the same round, symbol_2 later
\* in registry order; its write of hasKey won and its record shows the value
\* P had written as the old value
C18_Witness ==
    /\ lastCall.op = "bind_all_registered"
    /\ lastCall.apply_state_mutations
    /\ Len(lastCall.results) >= 2
    /\ lastCall.results[1].symbol_id = "a"
    /\ lastCall.results[2].symbol_id = "c"
    /\ DictGet(lastCall.final_context[1].state, "hasKey") = Some(FALSE)
    /\ lastCall.results[2].state_changes_applied # None
    /\ lastCall.results[2].state_changes_applied[1][1] =
          [key |-> "hasKey", old |-> Some(TRUE), new |-> FALSE]

\* C19: a sweep with mutation application disabled returns the input
\* context, evaluates every unit of every round against the input context
\* (attempting exactly the units whose pre-checks hold there), records no
\* applied state changes on any bound result or new attempt and leaves the
\* earlier attempts as they were.
C19_NoMutationWhenDisabled ==
    [][ (lastCall'.op = "bind_all_registered" /\ ~lastCall'.apply_state_mutations) =>
          /\ lastCall'.final_context = lastCall'.context
          /\ \A r \in 1..Len(lastCall'.rounds) :
                \A k \in 1..Len(lastCall'.rounds[r]) :
                   /\ lastCall'.rounds[r][k].context = lastCall'.context[1]
                   /\ lastCall'.rounds[r][k].called <=>
                         (~lastCall'.rounds[r][k].skipped
                            /\ PreChecksHold(lastCall'.rounds[r][k]))
          /\ \A i \in 1..Len(lastCall'.results) :
                lastCall'.results[i].state_changes_applied = None
          /\ SubSeq(trail', 1, Len(trail)) = trail
          /\ \A i \in (Len(trail) + 1)..Len(trail') :
                trail'[i].state_changes_applied = None ]_vars

\* C19 witness: without mutation application P was bound and Q, registered
\* too, stayed latent through a second round; the state is the input's
C19_Witness ==
    /\ lastCall.op = "bind_all_registered"
    /\ ~lastCall.apply_state_mutations
    /\ Registered = {SymP, unlock_door}
    /\ Len(lastCall.rounds) = 2
    /\ Len(lastCall.results) = 1
    /\ lastCall.results[1].symbol_id = "a"
    /\ lastCall.final_context[1].state = NoKeyDoorLocked

\* C20: a sweep runs at most max_iterations rounds; every round but the last
\* bound a unit; a sweep that ran fewer rounds than max_iterations ended on
\* a round that bound nothing; with max_iterations >= 1 at least one round
\* runs; and with max_iterations = 0 nothing is attempted, the result list is
\* empty and the input context is returned.
C20_SweepTermination ==
    [][ lastCall'.op = "bind_all_registered" =>
          LET rounds == lastCall'.rounds
              Binds(r) == \E k \in 1..Len(rounds[r]) :
                             /\ rounds[r][k].trail_to > rounds[r][k].trail_from
                             /\ trail'[rounds[r][k].trail_to].success
          IN  /\ Len(rounds) <= lastCall'.max_iterations
              /\ \A r \in 1..(Len(rounds) - 1) : Binds(r)
              /\ Len(rounds) < lastCall'.max_iterations =>
                    (rounds # <<>> /\ ~Binds(Len(rounds)))
              /\ lastCall'.max_iterations = 0 =>
                    /\ lastCall'.results = <<>>
                    /\ lastCall'.final_context = lastCall'.context
                    /\ trail' = trail
                    /\ ledger' = ledger
                    /\ activated_symbols' = activated_symbols ]_vars

\* C20 witness: a sweep used its whole budget of two rounds or more and was
\* still binding in its last round
C20_Witness ==
    /\ lastCall.op = "bind_all_registered"
    /\ lastCall.max_iterations >= 2
    /\ Len(lastCall.rounds) = lastCall.max_iterations
    /\ \E k \in 1..Len(lastCall.rounds[Len(lastCall.rounds)]) :
          lastCall.rounds[Len(lastCall.rounds)][k].trail_to
             > lastCall.rounds[Len(lastCall.rounds)][k].trail_from

\* the successful attempts appended by the last sweep, in log order
SweepSuccesses ==
    SelectSeq(SubSeq(trail, SweepBase + 1, Len(trail)), LAMBDA attempt : attempt.success)

\* C21: every round of a sweep walks the registry in insertion order, and
\* the returned list holds exactly the bound symbols of the successful binds
\* of the call, one per successful attempt, ordered by round and within a
\* round by registry order.
C21_ResultsRoundMajorRegistryOrder ==
    lastCall.op = "bind_all_registered" =>
       LET bound == BoundEvals(Evals)
       IN  /\ \A r \in 1..Len(lastCall.rounds) :
                 /\ Len(lastCall.rounds[r]) = Len(symbol_registry)
                 /\ \A k \in 1..Len(symbol_registry) :
                       lastCall.rounds[r][k].symbol = symbol_registry[k][2]
           /\ Len(lastCall.results) = Len(bound)
           /\ Len(SweepSuccesses) = Len(bound)
           /\ \A i \in 1..Len(bound) :
                 /\ lastCall.results[i].symbol_id = bound[i].symbol.id
                 /\ lastCall.results[i].effect = bound[i].symbol.payload
                 /\ lastCall.results[i].context_snapshot = bound[i].context
                 /\ SweepSuccesses[i].symbol_id = bound[i].symbol.id

\* C21 witness: a sweep of two rounds returned three or more bound symbols,
\* two of them from its first round and one at least from its second
C21_Witness ==
    /\ lastCall.op = "bind_all_registered"
    /\ Len(lastCall.rounds) = 2
    /\ Len(BoundEvals(lastCall.rounds[1])) = 2
    /\ Len(BoundEvals(lastCall.rounds[2])) >= 1
    /\ Len(lastCall.results) >= 3
    /\ lastCall.results[1].symbol_id # lastCall.results[2].symbol_id

\* the evaluation at registry position k of round r bound its unit
BoundIn(r, k) ==
    /\ lastCall.rounds[r][k].trail_to > lastCall.rounds[r][k].trail_from
    /\ trail[lastCall.rounds[r][k].trail_to].success

\* C22: in a sweep a unit is skipped exactly when it is one-shot and was
\* bound in an earlier round of the same call (so nothing is skipped in the
\* first round, whatever earlier calls bound); a skipped unit is not
\* attempted, hence a one-shot unit is bound at most once per call; and a
\* reusable unit is attempted in every round in which its pre-checks hold and
\* bound in every round in which all its checks hold.
C22_ConsumedSetPerCall ==
    lastCall.op = "bind_all_registered" =>
       \A r \in 1..Len(lastCall.rounds) :
          \A k \in 1..Len(lastCall.rounds[r]) :
             LET ev == lastCall.rounds[r][k]
             IN  /\ ev.skipped <=>
                       /\ ev.symbol.consumption = "one_shot"
                       /\ \E q \in 1..(r - 1) : BoundIn(q, k)
                 /\ ev.skipped => (~ev.called /\ ev.trail_to = ev.trail_from)
                 /\ ev.symbol.consumption = "one_shot" =>
                       Cardinality({q \in 1..Len(lastCall.rounds) : BoundIn(q, k)}) <= 1
                 /\ ev.symbol.consumption = "reusable" =>
                       /\ ev.called <=> PreChecksHold(ev)
                       /\ BoundIn(r, k) <=> (PreChecksHold(ev) /\ FullCheckHolds(ev))

\* C22 witness: the one-shot unit P, already bound by an earlier call, was
\* bound again in round 1 of this sweep and skipped in round 2, in which the
\* reusable unit T was bound a second time
C22_Witness ==
    /\ lastCall.op = "bind_all_registered"
    /\ Len(lastCall.rounds) = 2
    /\ \E i \in SuccessAt("a") : i <= SweepBase
    /\ \E k \in 1..Len(symbol_registry) :
          /\ symbol_registry[k][2] = SymP
          /\ BoundIn(1, k)
          /\ lastCall.rounds[2][k].skipped
    /\ \E k \in 1..Len(symbol_registry) :
          /\ symbol_registry[k][2] = SymT
          /\ BoundIn(1, k)
          /\ BoundIn(2, k)

\* the unit is guarded by the temporal string op:<ISO datetime> and by
\* nothing else
OnlyDateTimeGuard(symbol, op) ==
    /\ symbol.gate.who = None /\ symbol.gate.where = None /\ symbol.gate.state = None
    /\ symbol.depends_on = <<>>
    /\ symbol.gate.when # None
    /\ Len(symbol.gate.when[1]) = 2
    /\ symbol.gate.when[1][1] = op
    /\ symbol.gate.when[1][2][1] = "iso"

\* the evaluation was an attempt that bound, with one attempt-log entry
AttemptedAndBound(ev) ==
    /\ ev.called
    /\ ev.trail_to = ev.trail_from + 1
    /\ trail[ev.trail_to].success
    /\ trail[ev.trail_to].symbol_id = ev.symbol.id

\* the evaluation left the unit latent: no attempt, no attempt-log entry
LeftLatent(ev) == ~ev.called /\ ev.trail_to = ev.trail_from

\* C23: in a sweep a unit guarded only by "after:T" that is not consumed is
\* attempted and bound when the context timestamp is strictly later than T
\* and is otherwise left latent without an attempt-log entry; a unit guarded
\* only by "before:T" likewise with strictly earlier; at the timestamp T
\* itself both stay latent.
C23_StrictTemporalBoundary ==
    lastCall.op = "bind_all_registered" =>
       \A i \in 1..Len(Evals) :
          LET ev == Evals[i]
          IN  /\ (OnlyDateTimeGuard(ev.symbol, "after") /\ ~ev.skipped) =>
                    IF ev.context.when > ev.symbol.gate.when[1][2][2]
                    THEN AttemptedAndBound(ev) ELSE LeftLatent(ev)
              /\ (OnlyDateTimeGuard(ev.symbol, "before") /\ ~ev.skipped) =>
                    IF ev.context.when < ev.symbol.gate.when[1][2][2]
                    THEN AttemptedAndBound(ev) ELSE LeftLatent(ev)

\* C23 witness: a sweep at the instant 1 evaluated the units guarded by
\* "after:<1>" and "before:<1>" and attempted neither
C23_Witness ==
    /\ lastCall.op = "bind_all_registered"
    /\ lastCall.context[1].when = 1
    /\ \E i \in 1..Len(Evals) : Evals[i].symbol = future_symbol /\ LeftLatent(Evals[i])
    /\ \E i \in 1..Len(Evals) : Evals[i].symbol = deadline_symbol /\ LeftLatent(Evals[i])

\* the temporal string has no ':' separator (the empty string included), an
\* operator other than after/before, or a digit-led reference that is not an
\* ISO datetime
Unparsable(when) ==
    \/ Len(when) < 2
    \/ when[1] \notin {"after", "before"}
    \/ when[2][1] = "digit"

\* a bind of a unit with the temporal string when raised nothing, returned
\* nothing and appended one failed attempt carrying a when diagnostic
BindFoldedIntoDiagnostic ==
    /\ lastCall'.raised = None
    /\ lastCall'.ret = None
    /\ Len(trail') = Len(trail) + 1
    /\ trail'[Len(trail')].symbol_id = lastCall'.symbol[1].id
    /\ ~trail'[Len(trail')].success
    /\ "when" \in KindsOf(trail'[Len(trail')])

\* every evaluation of the last sweep (primed) of a unit whose temporal
\* string is in the set whens left the unit latent
SweepLeavesLatent(whens) ==
    \A r \in 1..Len(lastCall'.rounds) :
       \A k \in 1..Len(lastCall'.rounds[r]) :
          LET ev == lastCall'.rounds[r][k]
          IN  (ev.symbol.gate.when # None /\ ev.symbol.gate.when[1] \in whens) =>
                 (~ev.called /\ ev.trail_to = ev.trail_from)

\* C24: a present temporal guard that cannot be parsed (no ':' separator,
\* which the empty string has not either; an operator other than
\* after/before; a digit-led reference that is not an ISO datetime) never
\* raises out of bind or sweep: bind returns nothing and records one failed
\* attempt with a when diagnostic, and every round of a sweep leaves the unit
\* latent without an attempt.
C24_UnparsableGuardAsClaimed ==
    [][ /\ (lastCall'.op = "bind" /\ lastCall'.symbol[1].gate.when # None
              /\ Unparsable(lastCall'.symbol[1].gate.when[1]))
           => BindFoldedIntoDiagnostic
        /\ lastCall'.op = "bind_all_registered"
           => SweepLeavesLatent({w \in UnparsableWhen : Unparsable(w)}) ]_vars

\* what holds of C24 when the present but empty temporal string is set
\* aside: for every non-empty temporal string that cannot be parsed bind
\* raises nothing, returns nothing and records one failed attempt with a when
\* diagnostic, and every round of a sweep leaves the unit latent without an
\* attempt.
C24_UnparsableGuardFolded ==
    [][ /\ (lastCall'.op = "bind" /\ lastCall'.symbol[1].gate.when # None
              /\ lastCall'.symbol[1].gate.when[1] # <<>>
              /\ Unparsable(lastCall'.symbol[1].gate.when[1]))
           => BindFoldedIntoDiagnostic
        /\ lastCall'.op = "bind_all_registered"
           => SweepLeavesLatent({w \in UnparsableWhen : w # <<>> /\ Unparsable(w)}) ]_vars

\* the folded case is reached: a bind of the unit guarded by "after:"
\* followed by a digit-led reference that is not an ISO datetime returned
\* nothing and the last attempt-log entry is its failed attempt with only a
\* when diagnostic
C24_Witness ==
    /\ lastCall.op = "bind"
    /\ lastCall.symbol[1].gate.when = Some(<<"after", <<"digit", 0>>>>)
    /\ lastCall.ret = None
    /\ lastCall.raised = None
    /\ trail # <<>>
    /\ ~trail[Len(trail)].success
    /\ KindsOf(trail[Len(trail)]) = {"when"}

\* the six checks of bind pass for the unit
ChecksPass(activated, symbol, context) == FailingKinds(activated, symbol, context) = <<>>

\* the attempt-log entry at position i after the call is an attempt of the
\* unit with the given outcome
AttemptAt(i, symbol, success) ==
    /\ i <= Len(trail')
    /\ trail'[i].symbol_id = symbol.id
    /\ trail'[i].success = success

\* the result a single unit yields: success with its bound symbol, or
\* latent with the unit as source
ResultOf(symbol, context, bound) ==
    IF bound THEN BindingResult_success(BoundSymbol(symbol, context))
    ELSE BindingResult_still_latent(symbol)

\* C25: evaluating Alternative(a, b) over two units: if a passes its checks
\* the result is a's success, one attempt (a's) is recorded and none for b;
\* otherwise the attempt log gains a's failed attempt followed by b's
\* attempt and the result is b's, success or latent.
C25_AlternativeFallback ==
    [][ (lastCall'.op = "try_bind" /\ lastCall'.expr[1][1] = "Alternative") =>
          LET a == lastCall'.expr[1][2][2]
              b == lastCall'.expr[1][3][2]
              context == lastCall'.context[1]
              n == Len(trail)
          IN  IF ChecksPass(activated_symbols, a, context)
              THEN /\ lastCall'.result[1] = ResultOf(a, context, TRUE)
                   /\ Len(trail') = n + 1
                   /\ AttemptAt(n + 1, a, TRUE)
                   /\ activated_symbols' = activated_symbols \cup {a.id}
              ELSE /\ Len(trail') = n + 2
                   /\ AttemptAt(n + 1, a, FALSE)
                   /\ AttemptAt(n + 2, b, ChecksPass(activated_symbols, b, context))
                   /\ lastCall'.result[1] =
                         ResultOf(b, context, ChecksPass(activated_symbols, b, context))
        ]_vars

\* C25 witness: an Alternative whose two units both failed: the result is
\* latent with the right unit as source and the attempt log ends with the
\* left unit's failed attempt followed by the right unit's
C25_Witness ==
    /\ lastCall.op = "try_bind"
    /\ lastCall.expr[1][1] = "Alternative"
    /\ lastCall.result[1].status = "latent"
    /\ lastCall.result[1].source = Some(lastCall.expr[1][3][2])
    /\ Len(trail) >= 2
    /\ trail[Len(trail) - 1].symbol_id = lastCall.expr[1][2][2].id
    /\ ~trail[Len(trail) - 1].success
    /\ trail[Len(trail)].symbol_id = lastCall.expr[1][3][2].id
    /\ ~trail[Len(trail)].success

\* the units among a, b, c that pass their checks in the state the two
\* groupings were evaluated from
MatchingOf(units) ==
    {i \in 1..3 : ChecksPass(lastCall.activated, units[i], lastCall.context[1])}

\* C26: when exactly one of a, b, c passes its checks, (a | b) | c and
\* a | (b | c), evaluated from the same engine state against the same
\* context, both return the success of that unit and leave the same engine
\* state behind.
C26_AlternativeAssociative ==
    (lastCall.op = "try_bind_groupings" /\ Cardinality(MatchingOf(lastCall.expr[1])) = 1) =>
       LET m == CHOOSE i \in MatchingOf(lastCall.expr[1]) : TRUE
       IN  /\ lastCall.result[1] = ResultOf(lastCall.expr[1][m], lastCall.context[1], TRUE)
           /\ lastCall.other[1].result = lastCall.result[1]
           /\ lastCall.other[1].eng = Eng

\* C26 witness: of three units only the third passed, after the failed
\* attempts of the first two, and both groupings selected it
C26_Witness ==
    /\ lastCall.op = "try_bind_groupings"
    /\ MatchingOf(lastCall.expr[1]) = {3}
    /\ lastCall.result[1].status = "bound"
    /\ lastCall.result[1].bound[1].symbol_id = lastCall.expr[1][3].id
    /\ lastCall.other[1].result.status = "bound"
    /\ lastCall.other[1].result.bound[1].symbol_id = lastCall.expr[1][3].id

\* C27: evaluating Sequential(a, b) over two units: if a fails its checks
\* the result is a's latent result, only a's failed attempt is recorded and
\* b gets no attempt, no ledger transition and no entry in the satisfied
\* set; if a passes, a is bound, b is then attempted against the satisfied
\* set that includes a, and the result is b's, success or latent.
C27_SequentialShortCircuit ==
    [][ (lastCall'.op = "try_bind" /\ lastCall'.expr[1][1] = "Sequential") =>
          LET a == lastCall'.expr[1][2][2]
              b == lastCall'.expr[1][3][2]
              context == lastCall'.context[1]
              n == Len(trail)
          IN  IF ~ChecksPass(activated_symbols, a, context)
              THEN /\ lastCall'.result[1] = ResultOf(a, context, FALSE)
                   /\ Len(trail') = n + 1
                   /\ AttemptAt(n + 1, a, FALSE)
                   /\ activated_symbols' = activated_symbols
                   /\ \A i \in (Len(ledger) + 1)..Len(ledger') :
                         ledger'[i].symbol_id # b.id
              ELSE /\ Len(trail') = n + 2
                   /\ AttemptAt(n + 1, a, TRUE)
                   /\ AttemptAt(n + 2, b,
                                ChecksPass(activated_symbols \cup {a.id}, b, context))
                   /\ lastCall'.result[1] =
                         ResultOf(b, context,
                                  ChecksPass(activated_symbols \cup {a.id}, b, context))
        ]_vars

\* C27 witness: the left unit failed and the right unit, which would have
\* passed its checks, was not evaluated: the result is latent with the left
\* unit as source, the last attempt is the left unit's and the right unit is
\* not in the satisfied set
C27_Witness ==
    /\ lastCall.op = "try_bind"
    /\ lastCall.expr[1][1] = "Sequential"
    /\ ChecksPass(lastCall.activated, lastCall.expr[1][3][2], lastCall.context[1])
    /\ lastCall.result[1].status = "latent"
    /\ lastCall.result[1].source = Some(lastCall.expr[1][2][2])
    /\ trail # <<>>
    /\ trail[Len(trail)].symbol_id = lastCall.expr[1][2][2].id
    /\ ~trail[Len(trail)].success
    /\ lastCall.expr[1][3][2].id \notin activated_symbols

\* the outcomes expected of the units syms bound one after the other from
\* the satisfied set activated: TRUE where the unit passes its checks
RECURSIVE ExpectedOutcomes(_, _, _)
ExpectedOutcomes(activated, syms, context) ==
    IF syms = <<>> THEN <<>>
    ELSE <<ChecksPass(activated, Head(syms), context)>>
         \o ExpectedOutcomes(IF ChecksPass(activated, Head(syms), context)
                              THEN activated \cup {Head(syms).id} ELSE activated,
                              Tail(syms), context)

\* C28: evaluating Parallel over units c1..cn attempts every unit, in
\* declared order, whatever the earlier outcomes; if all bound the result is
\* a success holding the bound symbols of all children in declared order
\* (and the last of them as its bound symbol); otherwise it is the latent
\* result of the first unit in declared order that did not bind.
C28_ParallelAllOrFirstLatent ==
    [][ (lastCall'.op = "try_bind" /\ lastCall'.expr[1][1] = "Parallel") =>
          LET items == lastCall'.expr[1][2]
              syms == [i \in 1..Len(items) |-> items[i][2]]
              context == lastCall'.context[1]
              n == Len(trail)
              ok == ExpectedOutcomes(activated_symbols, syms, context)
          IN  /\ Len(trail') = n + Len(syms)
              /\ \A i \in 1..Len(syms) : AttemptAt(n + i, syms[i], ok[i])
              /\ IF \A i \in 1..Len(syms) : ok[i]
                 THEN lastCall'.result[1] =
                         BindingResult("bound", Some(BoundSymbol(syms[Len(syms)], context)),
                             Some([i \in 1..Len(syms) |-> BoundSymbol(syms[i], context)]),
                             None)
                 ELSE \E i \in 1..Len(syms) :
                         /\ ~ok[i]
                         /\ \A j \in 1..(i - 1) : ok[j]
                         /\ lastCall'.result[1] = ResultOf(syms[i], context, FALSE)
        ]_vars

\* C28 witness: a Parallel of three units whose first unit bound and whose
\* second and third did not: all three were attempted and the result is the
\* latent result of the second
C28_Witness ==
    /\ lastCall.op = "try_bind"
    /\ lastCall.expr[1][1] = "Parallel"
    /\ Len(lastCall.expr[1][2]) = 3
    /\ Len(trail) >= 3
    /\ trail[Len(trail) - 2].symbol_id = lastCall.expr[1][2][1][2].id
    /\ trail[Len(trail) - 2].success
    /\ trail[Len(trail) - 1].symbol_id = lastCall.expr[1][2][2][2].id
    /\ ~trail[Len(trail) - 1].success
    /\ trail[Len(trail)].symbol_id = lastCall.expr[1][2][3][2].id
    /\ ~trail[Len(trail)].success
    /\ lastCall.result[1] =
          BindingResult_still_latent(lastCall.expr[1][2][2][2])

\* C28 witness of success: a Parallel of two or more units all of which
\* bound returned their bound symbols in declared order
C28_WitnessAllBound ==
    /\ lastCall.op = "try_bind"
    /\ lastCall.expr[1][1] = "Parallel"
    /\ Len(lastCall.expr[1][2]) >= 2
    /\ lastCall.result[1].status = "bound"
    /\ Len(lastCall.result[1].bound_all[1]) = Len(lastCall.expr[1][2])

\* the number of ids of the list before the first one that is not registered
LookedUp(symbol_ids) ==
    IF \A i \in 1..Len(symbol_ids) : DictGet(symbol_registry, symbol_ids[i]) # None
    THEN Len(symbol_ids)
    ELSE (CHOOSE i \in 1..Len(symbol_ids) :
             /\ DictGet(symbol_registry, symbol_ids[i]) = None
             /\ \A j \in 1..(i - 1) : DictGet(symbol_registry, symbol_ids[j]) # None) - 1

\* the ledger entries appended by the step that record an activation
NewActivations ==
    SelectSeq(SubSeq(ledger', Len(ledger) + 1, Len(ledger')),
              LAMBDA t : t.to_state = "activated")

\* C29: bind_all attempts the registered units of the ids before the first
\* unregistered id, one attempt each in list order, each judged against the
\* satisfied set left by the earlier ones; the satisfied set and the ledger
\* gain the units that bound; with every id registered the call returns the
\* bound symbols of those that bound, in list order; otherwise it raises a
\* lookup error and the ids after the missing one are not attempted.
C29_BindAllInOrderUntilMissing ==
    [][ lastCall'.op = "bind_all" =>
          LET symbol_ids == lastCall'.symbol_ids
              context == lastCall'.context[1]
              k == LookedUp(symbol_ids)
              syms == [i \in 1..k |-> DictGet(symbol_registry, symbol_ids[i])[1]]
              ok == ExpectedOutcomes(activated_symbols, syms, context)
              bound == SelectSeq([i \in 1..k |-> <<syms[i], ok[i]>>], LAMBDA so : so[2])
          IN  /\ Len(trail') = Len(trail) + k
              /\ \A i \in 1..k : AttemptAt(Len(trail) + i, syms[i], ok[i])
              /\ activated_symbols' = activated_symbols \cup {syms[i].id : i \in {j \in 1..k : ok[j]}}
              /\ Len(NewActivations) = Len(bound)
              /\ \A i \in 1..Len(bound) : NewActivations[i].symbol_id = bound[i][1].id
              /\ IF k = Len(symbol_ids)
                 THEN /\ lastCall'.raised = None
                      /\ lastCall'.results = [i \in 1..Len(bound) |-> BoundSymbol(bound[i][1], context)]
                 ELSE lastCall'.raised = Some("KeyError")
        ]_vars

\* C29 witness: of three ids the second is not registered; the unit of the
\* first was bound and is in the satisfied set, the call raised the lookup
\* error and the registered unit of the third, which would have passed its
\* checks, was not attempted: the last attempt is the first unit's
C29_Witness ==
    /\ lastCall.op = "bind_all"
    /\ Len(lastCall.symbol_ids) = 3
    /\ DictGet(symbol_registry, lastCall.symbol_ids[1]) # None
    /\ DictGet(symbol_registry, lastCall.symbol_ids[2]) = None
    /\ DictGet(symbol_registry, lastCall.symbol_ids[3]) # None
    /\ ChecksPass(activated_symbols, DictGet(symbol_registry, lastCall.symbol_ids[3])[1],
                  lastCall.context[1])
    /\ lastCall.raised = Some("KeyError")
    /\ lastCall.symbol_ids[1] \in activated_symbols \ lastCall.activated
    /\ trail # <<>>
    /\ trail[Len(trail)].symbol_id = lastCall.symbol_ids[1]
    /\ trail[Len(trail)].success

\* the sweeps of the last state evolution stop, invoke the callback and
\* chain their contexts as described: every sweep but the last added an id
\* to the satisfied set, a run of fewer sweeps than max_rounds ended on a
\* sweep that added none, the callback was called once after each sweep that
\* added an id (with that sweep's output context and index) and not after
\* one that added none, and each sweep's input is the callback's result on
\* the previous output (the previous output itself without a callback)
TurnsAsDescribed ==
    LET turns == lastCall.turns
        cb == lastCall.on_round_complete
        Added(i) == turns[i].after # turns[i].before
        Handed(i) == IF cb # None /\ Added(i)
                     THEN with_state_update(turns[i].output, cb[1][1], cb[1][2])
                     ELSE turns[i].output
    IN  /\ Len(turns) <= lastCall.max_rounds
        /\ \A i \in 1..(Len(turns) - 1) : Added(i)
        /\ Len(turns) < lastCall.max_rounds => (turns # <<>> /\ ~Added(Len(turns)))
        /\ \A i \in 1..Len(turns) :
              /\ turns[i].hook_calls =
                    IF cb # None /\ Added(i)
                    THEN <<[context |-> turns[i].output, round_num |-> i - 1]>> ELSE <<>>
              /\ turns[i].input = IF i = 1 THEN lastCall.context[1] ELSE Handed(i - 1)

\* C30: a state evolution runs at most max_rounds sweeps, stops after the
\* first sweep that adds no id to the satisfied set, calls the callback once
\* after every sweep that added one and feeds its result to the next sweep,
\* and returns the number of sweeps run as turns used, for every
\* max_rounds >= 0.
C30_EvolutionTurnsUsed ==
    lastCall.op = "bind_with_state_evolution" =>
       /\ TurnsAsDescribed
       /\ lastCall.raised = None
       /\ lastCall.ret # None
       /\ lastCall.ret[1][2] = Len(lastCall.turns)

\* C30 restricted to max_rounds >= 1, where the loop variable is bound
C30_EvolutionWithPositiveBudget ==
    (lastCall.op = "bind_with_state_evolution" /\ lastCall.max_rounds >= 1) =>
       /\ TurnsAsDescribed
       /\ lastCall.raised = None
       /\ lastCall.ret # None
       /\ lastCall.ret[1][2] = Len(lastCall.turns)

\* a state evolution of two sweeps in which the callback ran after the
\* first and the second added no id
C30_TwoSweepsReached ==
    /\ lastCall.op = "bind_with_state_evolution"
    /\ Len(lastCall.turns) = 2
    /\ lastCall.turns[1].hook_calls # <<>>
    /\ lastCall.turns[2].hook_calls = <<>>
    /\ lastCall.turns[2].input # lastCall.turns[1].output

\* C31: while a sink is attached, the sequence of attempts the sink received
\* equals the in-memory attempt log (same entries, same content, same order)
\* at the end of every bind and every sweep; the teardown closes the sink,
\* and a closed sink receives no further write.
C31_SinkMirrorsLog ==
    [][ /\ (lastCall'.op \in {"bind", "bind_all_registered"} /\ streaming'.sink # None)
           => streaming'.written = trail'
        /\ (lastCall'.op = "__exit__" /\ streaming.sink # None) => streaming'.closed
        /\ streaming.closed => streaming'.written = streaming.written ]_vars

\* what C31 leaves of the claim when the content of the entries is set
\* aside: the sink received one entry per log entry, for the same ids and
\* outcomes in the same order
C31_SinkMirrorsLogUpToStateChanges ==
    [][ /\ (lastCall'.op \in {"bind", "bind_all_registered"} /\ streaming'.sink # None)
           => /\ Len(streaming'.written) = Len(trail')
              /\ \A i \in 1..Len(trail') :
                    streaming'.written[i] = [trail'[i] EXCEPT !.state_changes_applied = None]
        /\ (lastCall'.op = "__exit__" /\ streaming.sink # None) => streaming'.closed
        /\ streaming.closed => streaming'.written = streaming.written ]_vars

\* a sweep applied a state mutation while the sink was attached
C31_SweepAppliedMutation ==
    /\ lastCall.op = "bind_all_registered"
    /\ streaming.sink # None
    /\ \E i \in 1..Len(trail) : trail[i].state_changes_applied # None

\* C32: when sink.write raises during a bind, the error reaches the caller
\* after a single write attempt; the attempt is already in the in-memory
\* log; for a passing bind the id is already in the satisfied set and its
\* dormant -> activated transition in the ledger, while the activation
\* callback is not invoked and no bound symbol is returned; for a failing
\* bind the ledger gains nothing, not even the dormant -> expired transition
\* of an "expired" diagnostic.
C32_SinkWriteErrorReachesCaller ==
    [][ (lastCall'.op = "bind" /\ streaming.sink = Some("failing")) =>
           LET symbol == lastCall'.symbol[1]
               context == lastCall'.context[1]
               kinds == FailingKinds(activated_symbols, symbol, context)
           IN  /\ lastCall'.raised = Some("SinkError")
               /\ lastCall'.ret = None
               /\ lastCall'.hook_calls = <<>>
               /\ streaming' = streaming
               /\ Len(trail') = Len(trail) + 1
               /\ SubSeq(trail', 1, Len(trail)) = trail
               /\ AttemptAt(Len(trail'), symbol, kinds = <<>>)
               /\ KindsOf(trail'[Len(trail')]) = Range(kinds)
               /\ kinds = <<>> =>
                     /\ activated_symbols' = activated_symbols \cup {symbol.id}
                     /\ ledger' = Append(ledger, StateTransition(symbol.id, "dormant",
                                                     "activated", "Binding success"))
               /\ kinds # <<>> =>
                     /\ activated_symbols' = activated_symbols
                     /\ ledger' = ledger ]_vars

\* a failing bind with an "expired" diagnostic and then a passing bind on an
\* engine with a callback, both cut short by the raising sink
C32_Witness ==
    /\ streaming.sink = Some("failing")
    /\ on_symbol_activated
    /\ lastCall.op = "bind"
    /\ lastCall.raised = Some("SinkError")
    /\ Len(trail) = 2
    /\ "expired" \in KindsOf(trail[1])
    /\ trail[2].success
    /\ trail[2].symbol_id \in activated_symbols
    /\ \A i \in 1..Len(ledger) : ledger[i].to_state # "expired"

\* the positions of the attempt log holding an attempt of id
AttemptsOf(id) == {i \in 1..Len(trail) : trail[i].symbol_id = id}

\* C33: explain(id) reports "never attempted" exactly when the log holds no
\* entry of the id, success exactly when the most recent entry of the id is
\* a successful one, and otherwise lists the failure reasons of the most
\* recent entry of the id and of no other; it changes no engine state.
C33_ExplainReadsLatestAttempt ==
    [][ lastCall'.op = "explain" =>
           LET id == lastCall'.symbol_ids[1]
               said == lastCall'.ret[1]
               own == AttemptsOf(id)
               last == CHOOSE i \in own : \A j \in own : j <= i
           IN  /\ UNCHANGED <<symbol_registry, dependency_graph, activated_symbols,
                              ledger, trail, on_symbol_activated, streaming>>
               /\ (said.outcome = "never attempted") <=> (own = {})
               /\ (said.outcome = "successfully activated")
                     <=> (own # {} /\ trail[last].success)
               /\ (own # {} /\ ~trail[last].success) =>
                     /\ said.outcome = "failed to activate"
                     /\ said.reasons = trail[last].failure_reasons
                     /\ said.reasons # <<>> ]_vars

\* explain lists the reasons of a failed latest attempt of a unit that had
\* succeeded before
C33_Witness ==
    /\ lastCall.op = "explain"
    /\ lastCall.ret[1].outcome = "failed to activate"
    /\ Len(lastCall.ret[1].reasons) >= 1
    /\ \E i \in AttemptsOf(lastCall.symbol_ids[1]) : trail[i].success

\* C34: the attempt log is append-only: no operation removes, reorders or
\* changes an entry that is already in the log; its length never decreases
\* and every entry stays as it was recorded, for the entries present before
\* a call and for the entries a sweep appended while it ran.
C34_AttemptLogAppendOnly ==
    [][ /\ Len(trail') >= Len(trail)
        /\ SubSeq(trail', 1, Len(trail)) = trail
        /\ lastCall'.op = "bind_all_registered" =>
              \A r \in 1..Len(lastCall'.rounds) : \A k \in 1..Len(lastCall'.rounds[r]) :
                 LET ev == lastCall'.rounds[r][k]
                 IN  SubSeq(trail', ev.trail_from + 1, ev.trail_to) = ev.recorded ]_vars

\* what holds of C34 between calls: the entries present when an operation
\* is called are still there, in place and unchanged, when it returns
C34_EntriesOfEarlierCallsKept ==
    [][ /\ Len(trail') >= Len(trail)
        /\ SubSeq(trail', 1, Len(trail)) = trail ]_vars

\* the keys of a dict, in insertion order
Keys(d) == [i \in 1..Len(d) |-> d[i][1]]

\* C35: a register of a unit whose id is already registered keeps the id at
\* its position in registry order, leaves one registry entry and one edge
\* list per id, leaves every other entry, the satisfied set and the attempt
\* log as they were, runs the cycle check on the graph holding the new edge
\* list and, when the check passes, has replaced the stored unit and its
\* edge list by the new ones.
C35_ReregisterReplacesInPlace ==
    [][ (lastCall'.op = "register"
         /\ DictGet(symbol_registry, lastCall'.symbol[1].id) # None) =>
           LET symbol == lastCall'.symbol[1]
           IN  /\ Keys(symbol_registry') = Keys(symbol_registry)
               /\ Keys(dependency_graph') = Keys(dependency_graph)
               /\ \A i, j \in 1..Len(symbol_registry') :
                     symbol_registry'[i][1] = symbol_registry'[j][1] => i = j
               /\ \A i \in 1..Len(symbol_registry) :
                     symbol_registry[i][1] # symbol.id
                        => symbol_registry'[i] = symbol_registry[i]
               /\ \A i \in 1..Len(dependency_graph) :
                     dependency_graph[i][1] # symbol.id
                        => dependency_graph'[i] = dependency_graph[i]
               /\ activated_symbols' = activated_symbols
               /\ trail' = trail
               /\ (lastCall'.raised # None)
                     <=> HasCycle(Edges(DictSet(dependency_graph, symbol.id,
                                                symbol.depends_on)))
               /\ lastCall'.raised = None =>
                     /\ DictGet(symbol_registry', symbol.id) = Some(symbol)
                     /\ DictGet(dependency_graph', symbol.id) = Some(symbol.depends_on) ]_vars

\* the first of two registered ids, already satisfied, was re-registered
\* with another unit: it is still first and still satisfied
C35_Witness ==
    /\ lastCall.op = "register"
    /\ lastCall.raised = None
    /\ Len(symbol_registry) = 2
    /\ symbol_registry[1] = <<lastCall.symbol[1].id, lastCall.symbol[1]>>
    /\ lastCall.symbol[1].id \in activated_symbols
    /\ Len(SelectSeq(ledger, LAMBDA t : t.symbol_id = lastCall.symbol[1].id
                                        /\ t.to_state = "dormant")) = 2

\* C36: every attempt a sweep appends to the log is a successful one: each
\* unit that passes the pre-checks is bound by the bind that follows, so a
\* sweep records one successful attempt per bound result and no failed
\* attempt, and logs no transition into expired.
C36_SweepAttemptsAllSucceed ==
    lastCall.op = "bind_all_registered" =>
       /\ \A i \in (SweepBase + 1)..Len(trail) : trail[i].success
       /\ Len(trail) = SweepBase + Len(lastCall.results)
       /\ \A k \in 1..Len(Evals) :
             Evals[k].called => /\ Len(Evals[k].recorded) = 1
                                /\ Evals[k].recorded[1].success
                                /\ Evals[k].recorded[1].symbol_id = Evals[k].symbol.id
                                /\ Evals[k].symbol.id \in activated_symbols
       /\ \A i \in 1..Len(ledger) : ledger[i].to_state # "expired"

\* a sweep attempted and bound one unit and left another, whose pre-checks
\* failed, without an attempt
C36_Witness ==
    /\ lastCall.op = "bind_all_registered"
    /\ \E i \in 1..Len(Evals) : Evals[i].called /\ Evals[i].recorded[1].success
    /\ \E i \in 1..Len(Evals) :
          /\ ~Evals[i].called
          /\ ~Evals[i].skipped
          /\ \A j \in 1..Len(trail) : trail[j].symbol_id # Evals[i].symbol.id

\* the units at the leaves of an expression, left to right
RECURSIVE LeavesOf(_)
LeavesOf(expr) ==
    CASE expr[1] = "Sym" -> <<expr[2]>>
      [] expr[1] = "Parallel" ->
            Flatten([i \in 1..Len(expr[2]) |-> LeavesOf(expr[2][i])])
      [] OTHER -> LeavesOf(expr[2]) \o LeavesOf(expr[3])

\* C37: the combinators do not roll back.  Whatever a try_bind returns,
\* every child that bound during it stays in the satisfied set with its
\* dormant -> activated transition and its successful attempt: the satisfied
\* set grows by exactly the ids of the successful attempts the call appended,
\* the ledger by their activation transitions in the same order, the leftmost
\* leaf is bound whenever its checks pass, and every attempt of the call is
\* judged against the satisfied set enlarged by the children bound before it,
\* in this call or an earlier one.
C37_CombinatorsKeepBoundChildren ==
    [][ lastCall'.op = "try_bind" =>
           LET expr == lastCall'.expr[1]
               context == lastCall'.context[1]
               leaves == LeavesOf(expr)
               new == SubSeq(trail', Len(trail) + 1, Len(trail'))
               wins == SelectSeq(new, LAMBDA a : a.success)
               SatisfiedAt(i) == activated_symbols
                               \cup {new[j].symbol_id : j \in {h \in 1..(i - 1) : new[h].success}}
               UnitOf(id) == CHOOSE u \in Range(leaves) : u.id = id
           IN  /\ SubSeq(trail', 1, Len(trail)) = trail
               /\ activated_symbols' = activated_symbols \cup {wins[i].symbol_id : i \in 1..Len(wins)}
               /\ ledger' = ledger \o [i \in 1..Len(wins) |->
                                          StateTransition(wins[i].symbol_id, "dormant",
                                                          "activated", "Binding success")]
               /\ new # <<>> /\ new[1].symbol_id = leaves[1].id
               /\ \A i \in 1..Len(new) :
                     /\ \E u \in Range(leaves) : u.id = new[i].symbol_id
                     /\ new[i].success
                           <=> ChecksPass(SatisfiedAt(i), UnitOf(new[i].symbol_id), context)
               /\ (lastCall'.result[1].status # "bound" /\ expr[1] = "Sequential"
                   /\ ChecksPass(activated_symbols, leaves[1], context))
                     => /\ Len(new) = 2
                        /\ new[1].success /\ ~new[2].success
                        /\ leaves[1].id \in activated_symbols' ]_vars

\* an Alternative returned not-bound although the left child of its
\* Sequential bound: that child is satisfied, with its activation transition
\* and its successful attempt
C37_Witness ==
    /\ lastCall.op = "try_bind"
    /\ lastCall.expr[1][1] = "Alternative"
    /\ lastCall.result[1].status = "latent"
    /\ \E i \in 1..Len(trail) :
          /\ trail[i].success
          /\ trail[i].symbol_id \in activated_symbols \ lastCall.activated
          /\ \E j \in 1..Len(ledger) :
                ledger[j] = StateTransition(trail[i].symbol_id, "dormant", "activated",
                                            "Binding success")

\* the ids of the units a sweep's r-th round bound, in evaluation order
RoundBound(r) ==
    LET called == SelectSeq(lastCall.rounds[r], LAMBDA ev : ev.called)
    IN  [k \in 1..Len(called) |-> called[k].symbol.id]

\* the ids of the results of the last sweep, in result order
ResultIds == [i \in 1..Len(lastCall.results) |-> lastCall.results[i].symbol_id]

\* C38: a dependency satisfied inside a round takes effect in that round.
\* The chain a <- b <- c registered in the order a, b, c and swept from an
\* empty satisfied set binds entirely in round 1, with result order a, b, c;
\* registered in the order c, b, a it binds one unit per round, a then b
\* then c, so that c is bound exactly when max_iterations >= 3.
C38_ChainBindsWithinRound ==
    (/\ lastCall.op = "bind_all_registered"
     /\ lastCall.activated = {}
     /\ Registered = {SymA, symbol_b, SymC}) =>
       LET n == lastCall.max_iterations
           chain == <<"a", "b", "c">>
       IN  /\ Keys(symbol_registry) = <<"a", "b", "c">> =>
                 /\ RoundBound(1) = chain
                 /\ ResultIds = chain
                 /\ \A r \in 2..Len(lastCall.rounds) : RoundBound(r) = <<>>
           /\ Keys(symbol_registry) = <<"c", "b", "a">> =>
                 /\ \A r \in 1..Len(lastCall.rounds) :
                       RoundBound(r) = IF r <= 3 THEN <<chain[r]>> ELSE <<>>
                 /\ ResultIds = SubSeq(chain, 1, IF n < 3 THEN n ELSE 3)
                 /\ ("c" \in activated_symbols) <=> (n >= 3)

\* the chain registered in reverse order was swept with a cap of three
\* rounds or more and bound a, b and c in three rounds
C38_Witness ==
    /\ lastCall.op = "bind_all_registered"
    /\ lastCall.activated = {}
    /\ Keys(symbol_registry) = <<"c", "b", "a">>
    /\ Registered = {SymA, symbol_b, SymC}
    /\ lastCall.max_iterations >= 3
    /\ Len(lastCall.rounds) >= 3
    /\ ResultIds = <<"a", "b", "c">>
    /\ activated_symbols = {"a", "b", "c"}

\* C39: every unit a sweep attempts was registered successfully: the ledger
\* holds a created -> dormant transition of its id, logged before the
\* sweep; so a unit whose registration was rejected with the cycle error is
\* never attempted or bound by a sweep.
C39_SweepAttemptsOnlyRegistered ==
    lastCall.op = "bind_all_registered" =>
       \A k \in 1..Len(Evals) :
          Evals[k].called =>
             \E i \in 1..Len(ledger) :
                ledger[i] = StateTransition(Evals[k].symbol.id, "created", "dormant",
                                            "Registered")

\* C40: a sweep over a registry of N one-shot units stops after at most
\* N + 1 rounds whatever max_iterations is: every round but the last binds
\* at least one unit, no unit is bound twice, and with max_iterations > N
\* the last round binds nothing.  A sweep that is still binding in its last
\* allowed round although max_iterations > N binds a reusable unit there,
\* and a reusable unit whose checks hold from the start makes the sweep run
\* max_iterations rounds and is in the result once per round.
C40_OneShotSweepsReachFixedPoint ==
    lastCall.op = "bind_all_registered" =>
       LET N == Len(symbol_registry)
           n == lastCall.max_iterations
           R == Len(lastCall.rounds)
           Reusables == {u \in Registered : u.consumption = "reusable"}
           Times(ids, id) == Cardinality({i \in 1..Len(ids) : ids[i] = id})
       IN  /\ R <= n
           /\ Reusables = {} =>
                 /\ R <= N + 1
                 /\ \A r \in 1..(R - 1) : RoundBound(r) # <<>>
                 /\ \A id \in Ids : Times(ResultIds, id) <= 1
                 /\ n > N => RoundBound(R) = <<>>
           /\ (R = n /\ n > N /\ RoundBound(R) # <<>>) =>
                 \E u \in Reusables : Times(RoundBound(R), u.id) = 1
           /\ \A u \in Reusables :
                 ChecksPass(lastCall.activated, u, lastCall.context[1]) =>
                    /\ R = n
                    /\ Times(ResultIds, u.id) = n
                    /\ \A r \in 1..R : Times(RoundBound(r), u.id) = 1

\* three one-shot units, registered against their dependency order and
\* swept with the default cap of ten rounds: the sweep took four rounds
C40_Witness ==
    /\ lastCall.op = "bind_all_registered"
    /\ lastCall.max_iterations = DefaultMaxIterations
    /\ Registered = {SymA, symbol_b, SymC}
    /\ Len(lastCall.rounds) = Len(symbol_registry) + 1
    /\ Len(lastCall.results) = 3
    /\ RoundBound(4) = <<>>

\* a reusable unit was bound in each of the ten rounds of a sweep
C40_ReusableRunsToCap ==
    /\ lastCall.op = "bind_all_registered"
    /\ Len(lastCall.rounds) = DefaultMaxIterations
    /\ \E u \in Registered :
          /\ u.consumption = "reusable"
          /\ Cardinality({i \in 1..Len(ResultIds) : ResultIds[i] = u.id}) = DefaultMaxIterations

====
